---- MODULE Spec2Model ----
(***************************************************************************)
(* Profile configuration and session lifecycle of the Camoufox dashboard   *)
(* backend: ProfileManager (main.py), CamoufoxManager                       *)
(* (camoufox_manager.py), the request validators (profile_models.py,        *)
(* screen_utils.py, proxy_utils.py, os_detection.py) and the credential     *)
(* vault (crypto_utils.py).                                                  *)
(*                                                                           *)
(* The backend runs on one asyncio event loop: a handler runs atomically    *)
(* from one `await` of an engine call to the next, so every action below is *)
(* the code between two suspension points.                                   *)
(*                                                                           *)
(* Conventions: an Optional value is a sequence, <<>> for None and <<x>>    *)
(* for a present x. A message (error, warning) is a tuple of strings: the   *)
(* fixed text followed by the values the f-string interpolates.             *)
(***************************************************************************)
EXTENDS Integers, Sequences, FiniteSets, Bags, TLC

(* ------------------------------ bounds --------------------------------- *)
\* profiles created by uuid4 during one run
MaxProfiles == 2
\* profiles in the registry at the same time, and profiles created, while
\* sessions run (Spec)
MaxLive == 1
\* writes of profiles.json that fail in a row
MaxSaveFailures == 1
\* background tasks and awaiting handlers in flight at the same time
MaxTasks == 2
\* engine browsers open at the same time
MaxBrowsers == 2

(* ------------------------------ Optional ------------------------------- *)
None == <<>>
Some(x) == <<x>>
IsSome(o) == Len(o) > 0
IsNone(o) == Len(o) = 0
Get(o) == o[1]

Range(s) == {s[i] : i \in 1..Len(s)}

RECURSIVE Concat(_)
\* the concatenation of a sequence of sequences (list.extend in a loop)
Concat(ss) == IF Len(ss) = 0 THEN <<>> ELSE Head(ss) \o Concat(Tail(ss))

\* str.lower() on the OS identifiers the model draws
lower(s) ==
    CASE s = "Windows" -> "windows"
      [] s = "Linux" -> "linux"
      [] s = "MacOS" -> "macos"
      [] s = "Darwin" -> "darwin"
      [] s = "FreeBSD" -> "freebsd"
      [] OTHER -> s

(* ------------------------------ proxy_utils ---------------------------- *)
\* A proxy URL as urlparse splits it: scheme, username, password, hostname
\* and port, each absent (None) when the text has no such part.
Url(scheme, username, password, hostname, port) ==
    [scheme |-> scheme, username |-> username, password |-> password,
     hostname |-> hostname, port |-> port]

MaxPort == 65535

ProxyConfig(protocol, host, port, username, password) ==
    [protocol |-> protocol, host |-> host, port |-> port,
     username |-> username, password |-> password]

\* truthiness of an Optional[str]
Truthy(o) == IsSome(o) /\ Get(o) # ""

\* ProxyConfig.to_playwright_config: the engine's proxy descriptor; the
\* credentials are given only when username and password are both truthy
to_playwright_config(config) ==
    IF Truthy(config.username) /\ Truthy(config.password)
    THEN [server |-> <<config.protocol, config.host, config.port>>,
          username |-> config.username, password |-> config.password]
    ELSE [server |-> <<config.protocol, config.host, config.port>>]

\* parse_proxy_url were it to take any scheme and any port that is present
parse_proxy_url_any_scheme(proxy_url) ==
    IF ~Truthy(proxy_url.hostname)
    THEN [ok |-> FALSE, error |-> <<"Proxy URL must include a hostname">>]
    ELSE IF IsNone(proxy_url.port)
    THEN [ok |-> FALSE, error |-> <<"Proxy URL must include a port number">>]
    ELSE IF IsNone(proxy_url.username) # IsNone(proxy_url.password)
    THEN [ok |-> FALSE,
          error |-> <<"Both username and password must be provided for authenticated proxies">>]
    ELSE [ok |-> TRUE,
          config |-> ProxyConfig(proxy_url.scheme, Get(proxy_url.hostname),
                                 Get(proxy_url.port), proxy_url.username,
                                 proxy_url.password)]

\* parse_proxy_url: [ok |-> TRUE, config |-> ProxyConfig] or
\* [ok |-> FALSE, error |-> message] for the ValueError it raises.
parse_proxy_url(proxy_url) ==
    IF proxy_url.scheme \notin {"http", "https"}
    THEN [ok |-> FALSE, error |-> <<"Unsupported proxy protocol", proxy_url.scheme>>]
    ELSE IF ~Truthy(proxy_url.hostname)
    THEN [ok |-> FALSE, error |-> <<"Proxy URL must include a hostname">>]
    ELSE IF IsSome(proxy_url.port) /\ Get(proxy_url.port) > MaxPort
    THEN [ok |-> FALSE, error |-> <<"Port out of range 0-65535">>]
    ELSE IF IsNone(proxy_url.port) \/ Get(proxy_url.port) = 0
    THEN [ok |-> FALSE, error |-> <<"Proxy URL must include a port number">>]
    ELSE IF ~(1 <= Get(proxy_url.port) /\ Get(proxy_url.port) <= MaxPort)
    THEN [ok |-> FALSE, error |-> <<"Invalid port number">>]
    ELSE IF IsNone(proxy_url.username) # IsNone(proxy_url.password)
    THEN [ok |-> FALSE,
          error |-> <<"Both username and password must be provided for authenticated proxies">>]
    ELSE [ok |-> TRUE,
          config |-> ProxyConfig(proxy_url.scheme, Get(proxy_url.hostname),
                                 Get(proxy_url.port), proxy_url.username,
                                 proxy_url.password)]

\* validate_proxy_url: never raises; valid, errors, warnings
validate_proxy_url(proxy_url) ==
    LET p == parse_proxy_url(proxy_url) IN
    IF p.ok
    THEN [valid |-> TRUE, errors |-> <<>>,
          warnings |->
            (IF p.config.protocol = "http"
             THEN <<<<"HTTP proxy detected. Consider using HTTPS for better security.">>>>
             ELSE <<>>)
            \o (IF Truthy(p.config.username) /\ Truthy(p.config.password)
                THEN <<<<"Proxy credentials will be stored encrypted.">>>>
                ELSE <<>>)
            \o (IF p.config.host \in {"localhost", "127.0.0.1", "::1"}
                THEN <<<<"Localhost proxy detected. Ensure the proxy service is running.">>>>
                ELSE <<>>)]
    ELSE [valid |-> FALSE, errors |-> <<p.error>>, warnings |-> <<>>]

(* ------------------------------ proxy_utils: the URL as text ----------- *)
\* A proxy URL as the string the client sends: the sequence of its lexemes,
\* the separators ":", "//" and "@" and the words between them; <<>> is the
\* empty string.
Separators == {":", "//", "@"}

\* int() and str() on the port numbers the clients write
int(word) ==
    CASE word = "0" -> 0
      [] word = "1" -> 1
      [] word = "8080" -> 8080
      [] word = "65535" -> MaxPort
      [] word = "65536" -> MaxPort + 1

str(n) ==
    CASE n = 0 -> "0"
      [] n = 1 -> "1"
      [] n = 8080 -> "8080"
      [] n = MaxPort -> "65535"
      [] n = MaxPort + 1 -> "65536"

\* str.isdigit
isdigit(word) == word \in {"0", "1", "8080", "65535", "65536"}

RECURSIVE find(_, _, _)
\* str.find: the first position at or after i of the lexeme c, 0 if none
find(text, c, i) ==
    IF i > Len(text) THEN 0
    ELSE IF text[i] = c THEN i ELSE find(text, c, i + 1)

RECURSIVE rfind(_, _, _)
\* str.rfind: the last position at or before i of the lexeme c, 0 if none
rfind(text, c, i) ==
    IF i < 1 THEN 0
    ELSE IF text[i] = c THEN i ELSE rfind(text, c, i - 1)

RECURSIVE join(_)
\* the string a run of lexemes spells
join(text) == IF Len(text) = 0 THEN "" ELSE Head(text) \o join(Tail(text))

\* urllib.parse.urlparse with the username, password, hostname and port
\* properties of its result: the scheme is the word before a leading ":",
\* the netloc is what follows "//", the credentials are what precedes the
\* last "@" of the netloc, split at their first ":".  A text without "//"
\* has no netloc, so none of the four parts.
urlparse(text) ==
    LET has_scheme == /\ Len(text) >= 2 /\ text[2] = ":"
                      /\ text[1] \notin Separators /\ ~isdigit(text[1])
        rest == IF has_scheme THEN SubSeq(text, 3, Len(text)) ELSE text
        netloc == IF Len(rest) >= 1 /\ rest[1] = "//" THEN Tail(rest) ELSE <<>>
        at == rfind(netloc, "@", Len(netloc))
        userinfo == SubSeq(netloc, 1, at - 1)
        hostinfo == SubSeq(netloc, at + 1, Len(netloc))
        colon == find(userinfo, ":", 1)
        portcolon == find(hostinfo, ":", 1)
        host == IF portcolon = 0 THEN hostinfo ELSE SubSeq(hostinfo, 1, portcolon - 1)
    IN Url(IF has_scheme THEN lower(text[1]) ELSE "",
           IF at = 0 THEN None
           ELSE Some(join(IF colon = 0 THEN userinfo
                          ELSE SubSeq(userinfo, 1, colon - 1))),
           IF at = 0 \/ colon = 0 THEN None
           ELSE Some(join(SubSeq(userinfo, colon + 1, Len(userinfo)))),
           IF Len(host) = 0 THEN None ELSE Some(lower(join(host))),
           IF portcolon = 0 THEN None ELSE Some(int(hostinfo[portcolon + 1])))

\* ParseResult.geturl: the text that splits into the given parts
geturl(url) ==
    <<url.scheme, ":", "//">>
    \o (IF IsNone(url.username) THEN <<>>
        ELSE (IF Get(url.username) = "" THEN <<>> ELSE <<Get(url.username)>>)
             \o (IF IsNone(url.password) THEN <<>>
                 ELSE <<":">> \o (IF Get(url.password) = "" THEN <<>>
                                  ELSE <<Get(url.password)>>))
             \o <<"@">>)
    \o (IF IsNone(url.hostname) THEN <<>> ELSE <<Get(url.hostname)>>)
    \o (IF IsNone(url.port) THEN <<>> ELSE <<":", str(Get(url.port))>>)

\* ProxyConfig.to_url
to_url(config, include_auth) ==
    IF include_auth /\ Truthy(config.username) /\ Truthy(config.password)
    THEN <<config.protocol, ":", "//", Get(config.username), ":",
           Get(config.password), "@", config.host, ":", str(config.port)>>
    ELSE <<config.protocol, ":", "//", config.host, ":", str(config.port)>>

RECURSIVE re_sub(_)
\* re.sub(r'://[^@]+@', '://***:***@', text): every "://" that is followed
\* by at least one character other than "@" and then by an "@" is replaced,
\* up to the first such "@", from the left
re_sub(text) ==
    LET starts == {i \in 1..Len(text) :
                     /\ i + 3 <= Len(text)
                     /\ text[i] = ":" /\ text[i + 1] = "//"
                     /\ text[i + 2] # "@"
                     /\ find(text, "@", i + 2) # 0}
    IN IF starts = {} THEN text
       ELSE LET i == CHOOSE j \in starts : \A k \in starts : j <= k
                end == find(text, "@", i + 2)
            IN SubSeq(text, 1, i - 1)
               \o <<":", "//", "***", ":", "***", "@">>
               \o re_sub(SubSeq(text, end + 1, Len(text)))

\* sanitize_proxy_for_logging were its parse not wrapped in try/except: the
\* ValueError of a text that does not parse reaches the caller
sanitize_proxy_for_logging_uncaught(proxy_url) ==
    LET parsed == parse_proxy_url(urlparse(proxy_url)) IN
    IF Len(proxy_url) > 0 /\ parsed.ok
    THEN [raised |-> FALSE, value |-> to_url(parsed.config, FALSE)]
    ELSE [raised |-> TRUE, value |-> <<>>]

\* sanitize_proxy_for_logging: the URL without credentials when the text
\* parses (the empty string never does), the regex replacement otherwise;
\* raised tells whether an exception reaches the caller
sanitize_proxy_for_logging(proxy_url) ==
    LET parsed == parse_proxy_url(urlparse(proxy_url)) IN
    IF Len(proxy_url) > 0 /\ parsed.ok
    THEN [raised |-> FALSE, value |-> to_url(parsed.config, FALSE)]
    ELSE [raised |-> FALSE, value |-> re_sub(proxy_url)]

(* ------------------------------ screen_utils --------------------------- *)
ScreenSize(sw, sh, ww, wh, w) ==
    [screen_width |-> sw, screen_height |-> sh,
     window_width |-> ww, window_height |-> wh, weight |-> w]

COMMON_RESOLUTIONS ==
    << ScreenSize(1920, 1080, 1500, 900, 35),
       ScreenSize(1366, 768, 1200, 700, 20),
       ScreenSize(1440, 900, 1300, 800, 12),
       ScreenSize(1536, 864, 1400, 750, 8),
       ScreenSize(2560, 1440, 2000, 1200, 10),
       ScreenSize(1280, 720, 1100, 650, 6),
       ScreenSize(1600, 900, 1400, 800, 4),
       ScreenSize(3840, 2160, 2800, 1800, 3),
       ScreenSize(1280, 1024, 1100, 900, 2) >>

\* ScreenSize.validate were its warnings to make the size invalid
ScreenSize_validate_strict(s) ==
    LET errors ==
            (IF s.screen_width <= 0 \/ s.screen_height <= 0
             THEN <<<<"Screen dimensions must be positive">>>> ELSE <<>>)
            \o (IF s.window_width <= 0 \/ s.window_height <= 0
                THEN <<<<"Window dimensions must be positive">>>> ELSE <<>>)
            \o (IF s.weight <= 0
                THEN <<<<"Weight must be positive">>>> ELSE <<>>)
        warnings ==
            (IF s.window_width > s.screen_width
             THEN <<<<"Window width exceeds screen width">>>> ELSE <<>>)
            \o (IF s.window_height > s.screen_height
                THEN <<<<"Window height exceeds screen height">>>> ELSE <<>>)
            \o (IF s.screen_width < 800 \/ s.screen_height < 600
                THEN <<<<"Very small screen resolution may cause compatibility issues">>>>
                ELSE <<>>)
            \o (IF s.screen_width > 7680 \/ s.screen_height > 4320
                THEN <<<<"Very large screen resolution is uncommon and may be suspicious">>>>
                ELSE <<>>)
            \o (IF s.window_width < 400 \/ s.window_height < 300
                THEN <<<<"Very small window size may cause usability issues">>>>
                ELSE <<>>)
    IN [valid |-> Len(errors) = 0 /\ Len(warnings) = 0, errors |-> errors, warnings |-> warnings]

\* ScreenSize.validate
ScreenSize_validate(s) ==
    LET errors ==
            (IF s.screen_width <= 0 \/ s.screen_height <= 0
             THEN <<<<"Screen dimensions must be positive">>>> ELSE <<>>)
            \o (IF s.window_width <= 0 \/ s.window_height <= 0
                THEN <<<<"Window dimensions must be positive">>>> ELSE <<>>)
            \o (IF s.weight <= 0
                THEN <<<<"Weight must be positive">>>> ELSE <<>>)
        warnings ==
            (IF s.window_width > s.screen_width
             THEN <<<<"Window width exceeds screen width">>>> ELSE <<>>)
            \o (IF s.window_height > s.screen_height
                THEN <<<<"Window height exceeds screen height">>>> ELSE <<>>)
            \o (IF s.screen_width < 800 \/ s.screen_height < 600
                THEN <<<<"Very small screen resolution may cause compatibility issues">>>>
                ELSE <<>>)
            \o (IF s.screen_width > 7680 \/ s.screen_height > 4320
                THEN <<<<"Very large screen resolution is uncommon and may be suspicious">>>>
                ELSE <<>>)
            \o (IF s.window_width < 400 \/ s.window_height < 300
                THEN <<<<"Very small window size may cause usability issues">>>>
                ELSE <<>>)
    IN [valid |-> Len(errors) = 0, errors |-> errors, warnings |-> warnings]

\* None in the place of a number (a JSON null): no number, so that every
\* comparison of it with a number raises TypeError
null == 0 - 1000000

\* the keys from_dict reads with data[...]
Dimensions == {"screen_width", "screen_height", "window_width", "window_height"}

\* whether a ScreenSize holds None where validate() compares: each field is
\* compared on every path through validate, so any None makes it raise
HasNull(s) ==
    null \in {s.screen_width, s.screen_height, s.window_width, s.window_height,
              s.weight}

\* ScreenSize.from_dict: data is a dict, a record with the keys it has;
\* [ok |-> FALSE] stands for the KeyError of a missing dimension. The
\* values are taken as they are.
from_dict(data) ==
    IF Dimensions \subseteq DOMAIN data
    THEN [ok |-> TRUE,
          size |-> ScreenSize(data.screen_width, data.screen_height,
                              data.window_width, data.window_height,
                              IF "weight" \in DOMAIN data THEN data.weight ELSE 1)]
    ELSE [ok |-> FALSE]

RECURSIVE SumWeights(_)
SumWeights(items) ==
    IF Len(items) = 0 THEN 0 ELSE Head(items).weight + SumWeights(Tail(items))

\* the messages of one distribution item, prefixed with its index
IndexName(i) == <<"0", "1", "2", "3", "4">>[i]
IndexedMessages(i, msgs) ==
    [k \in 1..Len(msgs) |-> <<"Distribution item", IndexName(i)>> \o msgs[k]]

\* validate_screen_mode_config were it to check the mode alone
validate_screen_mode_config_mode_only(screen_mode, config) ==
    IF screen_mode \notin {"random_session", "fixed_profile", "custom_distribution"}
    THEN [valid |-> FALSE, errors |-> <<<<"Invalid screen mode", screen_mode>>>>,
          warnings |-> <<>>]
    ELSE [valid |-> TRUE, errors |-> <<>>, warnings |-> <<>>]

\* ScreenModeHandler.validate_screen_mode_config; config is
\* [fixed_screen |-> Optional size, distribution |-> Optional list]
validate_screen_mode_config(screen_mode, config) ==
    IF screen_mode \notin {"random_session", "fixed_profile", "custom_distribution"}
    THEN [valid |-> FALSE, errors |-> <<<<"Invalid screen mode", screen_mode>>>>,
          warnings |-> <<>>]
    ELSE IF screen_mode = "fixed_profile"
    THEN IF IsNone(config.fixed_screen) \/ DOMAIN Get(config.fixed_screen) = {}
         THEN [valid |-> FALSE,
               errors |-> <<<<"fixed_profile mode requires fixed_screen configuration">>>>,
               warnings |-> <<>>]
         ELSE IF ~from_dict(Get(config.fixed_screen)).ok
                 \/ HasNull(from_dict(Get(config.fixed_screen)).size)
         THEN [valid |-> FALSE,
               errors |-> <<<<"Invalid fixed_screen configuration">>>>,
               warnings |-> <<>>]
         ELSE LET v == ScreenSize_validate(from_dict(Get(config.fixed_screen)).size) IN
              [valid |-> v.valid, errors |-> v.errors, warnings |-> v.warnings]
    ELSE IF screen_mode = "custom_distribution"
    THEN IF IsNone(config.distribution) \/ Len(Get(config.distribution)) = 0
         THEN [valid |-> FALSE,
               errors |-> <<<<"custom_distribution mode requires distribution configuration">>>>,
               warnings |-> <<>>]
         ELSE LET items == Get(config.distribution)
                  \* the first item that makes from_dict or validate raise
                  bad == {i \in 1..Len(items) :
                            ~from_dict(items[i]).ok \/ HasNull(from_dict(items[i]).size)}
                  n == IF bad = {} THEN Len(items)
                       ELSE (CHOOSE i \in bad : \A j \in bad : i <= j) - 1
                  d == [i \in 1..n |-> from_dict(items[i]).size]
                  vs == [i \in 1..n |-> ScreenSize_validate(d[i])]
                  itemErrors == Concat([i \in 1..n |-> IndexedMessages(i, vs[i].errors)])
                  itemWarnings == Concat([i \in 1..n |-> IndexedMessages(i, vs[i].warnings)])
                  totalBad == SumWeights(d) <= 0
              IN IF bad # {}
                 THEN [valid |-> FALSE,
                       errors |-> itemErrors
                                  \o <<<<"Invalid distribution configuration">>>>,
                       warnings |-> itemWarnings]
                 ELSE [valid |-> (\A i \in 1..n : vs[i].valid) /\ ~totalBad,
                       errors |-> itemErrors \o
                           (IF totalBad
                            THEN <<<<"Total weight of distribution must be positive">>>>
                            ELSE <<>>),
                       warnings |-> itemWarnings]
    ELSE [valid |-> TRUE, errors |-> <<>>, warnings |-> <<>>]

RECURSIVE CumWeight(_, _)
\* itertools.accumulate(weights)[i]
CumWeight(weights, i) == IF i = 0 THEN 0 ELSE weights[i] + CumWeight(weights, i - 1)

RECURSIVE bisect_right(_, _, _, _)
\* bisect.bisect_right(a, x, lo, hi) on the cumulative weights a[j + 1] =
\* CumWeight(weights, j + 1): the binary search as it runs, also on a list
\* that negative weights leave unsorted
bisect_right(weights, x, lo, hi) ==
    IF lo >= hi THEN lo
    ELSE LET mid == (lo + hi) \div 2 IN
         IF x < CumWeight(weights, mid + 1)
         THEN bisect_right(weights, x, lo, mid)
         ELSE bisect_right(weights, x, mid + 1, hi)

\* bisect(cum_weights, x, 0, n - 1), as a 1-based index into the population
Bisect(weights, x) ==
    1 + bisect_right(weights, x, 0, Len(weights) - 1)

\* random.choices(population, weights)[0]: the items it can return; the empty
\* set stands for the ValueError of a total weight <= 0. The draw
\* random() * total lies in [0, total); the weights are whole numbers, so the
\* whole numbers of that range reach every index a real draw reaches.
choices(population, weights) ==
    LET total == CumWeight(weights, Len(weights)) IN
    IF total <= 0 THEN {}
    ELSE {population[Bisect(weights, x)] : x \in 0..(total - 1)}

\* get_random_screen that always returns the most common resolution
get_random_screen_most_common == {COMMON_RESOLUTIONS[1]}

\* ScreenModeHandler.get_random_screen
get_random_screen ==
    choices(COMMON_RESOLUTIONS,
            [i \in 1..Len(COMMON_RESOLUTIONS) |-> COMMON_RESOLUTIONS[i].weight])

\* sample_from_distribution with the weights handed to random.choices as
\* they are, also when none is positive
sample_from_distribution_unsubstituted(distribution) ==
    IF IsNone(distribution) \/ Len(Get(distribution)) = 0
    THEN get_random_screen
    ELSE LET items == Get(distribution)
             d == [i \in 1..Len(items) |-> from_dict(items[i]).size]
             ws == [i \in 1..Len(d) |-> d[i].weight]
             weights == ws
             picked == choices(d, weights)
         IN IF \E i \in 1..Len(items) : ~from_dict(items[i]).ok
            THEN get_random_screen
            ELSE IF \E i \in 1..Len(d) : ws[i] = null
            THEN get_random_screen
            ELSE IF picked = {} THEN get_random_screen ELSE picked

\* ScreenModeHandler.sample_from_distribution: the sizes it can return
sample_from_distribution(distribution) ==
    IF IsNone(distribution) \/ Len(Get(distribution)) = 0
    THEN get_random_screen
    ELSE LET items == Get(distribution)
             d == [i \in 1..Len(items) |-> from_dict(items[i]).size]
             ws == [i \in 1..Len(d) |-> d[i].weight]
             weights == IF \A i \in 1..Len(d) : ws[i] <= 0
                        THEN [i \in 1..Len(d) |-> 1] ELSE ws
             picked == choices(d, weights)
         IN IF \E i \in 1..Len(items) : ~from_dict(items[i]).ok
            THEN get_random_screen
            ELSE IF \E i \in 1..Len(d) : ws[i] = null
            THEN get_random_screen
            ELSE IF picked = {} THEN get_random_screen ELSE picked

\* ScreenModeHandler.select_screen_for_profile: the sizes it can return
select_screen_for_profile(profile_data) ==
    IF profile_data.screen_mode = "fixed_profile"
    THEN IF IsSome(profile_data.fixed_screen)
            /\ DOMAIN Get(profile_data.fixed_screen) # {}
         THEN IF from_dict(Get(profile_data.fixed_screen)).ok
              THEN {from_dict(Get(profile_data.fixed_screen)).size}
              ELSE get_random_screen
         ELSE get_random_screen
    ELSE IF profile_data.screen_mode = "custom_distribution"
    THEN sample_from_distribution(profile_data.distribution)
    ELSE get_random_screen

(* ------------------------------ os_detection --------------------------- *)
valid_os_values == {"windows", "macos", "linux"}

\* validate_os_override: the warnings it returns
validate_os_override(os_override, host) ==
    IF lower(os_override) \notin valid_os_values
    THEN <<<<"Invalid OS value", os_override>>>>
    ELSE IF lower(os_override) # lower(host)
    THEN << <<"OS override differs from host OS", os_override, host>>,
            <<"This may cause fingerprint mismatches and site breakage">>,
            <<"Browser fonts, GPU info, and platform APIs may not match the spoofed OS">>,
            <<"Consider using host OS for better compatibility">> >>
    ELSE <<>>

(* ------------------------------ crypto_utils --------------------------- *)
\* the Fernet key the vault loaded or generated at start
fernet_key == "key1"

\* encrypt were it to drop the password of the URL it is given
encrypt_without_password(plaintext) ==
    [key |-> fernet_key, plaintext |-> [plaintext EXCEPT !.password = <<>>],
     intact |-> TRUE]

\* CryptoManager.encrypt: an authenticated token under the vault's key
encrypt(plaintext) == [key |-> fernet_key, plaintext |-> plaintext, intact |-> TRUE]

\* CryptoManager.decrypt: [ok |-> TRUE, plaintext] or [ok |-> FALSE] when the
\* token was made under another key or was altered (InvalidToken)
decrypt(ciphertext) ==
    IF ciphertext.key = fernet_key /\ ciphertext.intact
    THEN [ok |-> TRUE, plaintext |-> ciphertext.plaintext]
    ELSE [ok |-> FALSE]

(* ------------------------------ profile_models ------------------------- *)
\* the Field constraints of ScreenSize and DistributionItem
ScreenSize_field_ok(s) ==
    /\ 1 <= s.screen_width /\ s.screen_width <= 10000
    /\ 1 <= s.screen_height /\ s.screen_height <= 10000
    /\ 1 <= s.window_width /\ s.window_width <= 10000
    /\ 1 <= s.window_height /\ s.window_height <= 10000
    /\ s.weight > 0

\* ProfileCreateRequest without its validate_os_config
ProfileCreateRequest_without_os_config(body) ==
    LET fields_ok ==
            /\ 1 <= Len(body.name) /\ Len(body.name) <= 100
            /\ body.screen_mode \in {"random_session", "fixed_profile", "custom_distribution"}
            /\ IsSome(body.fixed_screen) => ScreenSize_field_ok(Get(body.fixed_screen))
            /\ IsSome(body.distribution) =>
                  \A i \in 1..Len(Get(body.distribution)) :
                      ScreenSize_field_ok(Get(body.distribution)[i])
            /\ IsSome(body.proxy) => validate_proxy_url(Get(body.proxy)).valid
            /\ IsSome(body.os_override) => lower(Get(body.os_override)) \in valid_os_values
        os_override == IF Truthy(body.os_override)
                       THEN Some(lower(Get(body.os_override))) ELSE None
        screen_config_ok ==
            IF body.screen_mode = "fixed_profile"
            THEN IsSome(body.fixed_screen)
            ELSE IF body.screen_mode = "custom_distribution"
            THEN /\ IsSome(body.distribution)
                 /\ Len(Get(body.distribution)) > 0
                 /\ SumWeights(Get(body.distribution)) > 0
            ELSE TRUE
        os_config_ok == TRUE
    IN IF fields_ok /\ screen_config_ok /\ os_config_ok
       THEN [ok |-> TRUE, request |-> [body EXCEPT !.os_override = os_override]]
       ELSE [ok |-> FALSE]

\* ProfileCreateRequest(**body): the field and model validators. A body is
\* [name, screen_mode, fixed_screen, distribution, proxy, use_host_os,
\* os_override, timezone]; the request is the body with os_override
\* lower-cased. [ok |-> FALSE] stands for pydantic's ValidationError.
ProfileCreateRequest(body) ==
    LET fields_ok ==
            /\ 1 <= Len(body.name) /\ Len(body.name) <= 100
            /\ body.screen_mode \in {"random_session", "fixed_profile", "custom_distribution"}
            /\ IsSome(body.fixed_screen) => ScreenSize_field_ok(Get(body.fixed_screen))
            /\ IsSome(body.distribution) =>
                  \A i \in 1..Len(Get(body.distribution)) :
                      ScreenSize_field_ok(Get(body.distribution)[i])
            /\ IsSome(body.proxy) => validate_proxy_url(Get(body.proxy)).valid
            /\ IsSome(body.os_override) => lower(Get(body.os_override)) \in valid_os_values
        os_override == IF Truthy(body.os_override)
                       THEN Some(lower(Get(body.os_override))) ELSE None
        screen_config_ok ==
            IF body.screen_mode = "fixed_profile"
            THEN IsSome(body.fixed_screen)
            ELSE IF body.screen_mode = "custom_distribution"
            THEN /\ IsSome(body.distribution)
                 /\ Len(Get(body.distribution)) > 0
                 /\ SumWeights(Get(body.distribution)) > 0
            ELSE TRUE
        os_config_ok == body.use_host_os \/ Truthy(os_override)
    IN IF fields_ok /\ screen_config_ok /\ os_config_ok
       THEN [ok |-> TRUE, request |-> [body EXCEPT !.os_override = os_override]]
       ELSE [ok |-> FALSE]

\* validate_profile_create_request were it to leave the result of the proxy
\* validation out of valid
validate_profile_create_request_screen_only(request, host) ==
    LET effective_os ==
            IF request.use_host_os THEN host
            ELSE IF Truthy(request.os_override) THEN Get(request.os_override)
            ELSE host
        os_warnings ==
            IF ~request.use_host_os /\ Truthy(request.os_override)
            THEN validate_os_override(Get(request.os_override), host)
            ELSE <<>>
        screen_validation ==
            validate_screen_mode_config(request.screen_mode,
                [fixed_screen |-> request.fixed_screen,
                 distribution |-> IF IsSome(request.distribution)
                                     /\ Len(Get(request.distribution)) > 0
                                  THEN request.distribution ELSE None])
        proxy_validation ==
            IF IsSome(request.proxy)
            THEN validate_proxy_url(Get(request.proxy))
            ELSE [valid |-> TRUE, errors |-> <<>>, warnings |-> <<>>]
    IN [valid |-> screen_validation.valid,
        errors |-> screen_validation.errors \o proxy_validation.errors,
        warnings |-> os_warnings \o screen_validation.warnings
                     \o proxy_validation.warnings,
        effective_os |-> effective_os]

\* validate_profile_create_request were it to take the override whenever one
\* is given
validate_profile_create_request_override_first(request, host) ==
    LET effective_os ==
            IF Truthy(request.os_override) THEN Get(request.os_override)
            ELSE host
        os_warnings ==
            IF ~request.use_host_os /\ Truthy(request.os_override)
            THEN validate_os_override(Get(request.os_override), host)
            ELSE <<>>
        screen_validation ==
            validate_screen_mode_config(request.screen_mode,
                [fixed_screen |-> request.fixed_screen,
                 distribution |-> IF IsSome(request.distribution)
                                     /\ Len(Get(request.distribution)) > 0
                                  THEN request.distribution ELSE None])
        proxy_validation ==
            IF IsSome(request.proxy)
            THEN validate_proxy_url(Get(request.proxy))
            ELSE [valid |-> TRUE, errors |-> <<>>, warnings |-> <<>>]
    IN [valid |-> screen_validation.valid /\ proxy_validation.valid,
        errors |-> screen_validation.errors \o proxy_validation.errors,
        warnings |-> os_warnings \o screen_validation.warnings
                     \o proxy_validation.warnings,
        effective_os |-> effective_os]

\* validate_profile_create_request, with detect_host_os() = host
validate_profile_create_request(request, host) ==
    LET effective_os ==
            IF request.use_host_os THEN host
            ELSE IF Truthy(request.os_override) THEN Get(request.os_override)
            ELSE host
        os_warnings ==
            IF ~request.use_host_os /\ Truthy(request.os_override)
            THEN validate_os_override(Get(request.os_override), host)
            ELSE <<>>
        screen_validation ==
            validate_screen_mode_config(request.screen_mode,
                [fixed_screen |-> request.fixed_screen,
                 distribution |-> IF IsSome(request.distribution)
                                     /\ Len(Get(request.distribution)) > 0
                                  THEN request.distribution ELSE None])
        proxy_validation ==
            IF IsSome(request.proxy)
            THEN validate_proxy_url(Get(request.proxy))
            ELSE [valid |-> TRUE, errors |-> <<>>, warnings |-> <<>>]
    IN [valid |-> screen_validation.valid /\ proxy_validation.valid,
        errors |-> screen_validation.errors \o proxy_validation.errors,
        warnings |-> os_warnings \o screen_validation.warnings
                     \o proxy_validation.warnings,
        effective_os |-> effective_os]

(* ------------------------------ inputs --------------------------------- *)
\* datetime.now().isoformat() values
Times == {"t1"}

\* platform.system() of the host
HostSystems == {"Linux"}

\* detect_host_os
detect_host_os(system) ==
    IF lower(system) = "windows" THEN "windows"
    ELSE IF lower(system) = "darwin" THEN "macos"
    ELSE "linux"

FullHD == ScreenSize(1920, 1080, 1500, 900, 1)

ProxyWithAuth == Url("http", Some("user"), Some("pass"), Some("proxy.example.com"), Some(8080))

Body(name, screen_mode, fixed_screen, distribution, proxy, use_host_os, os_override) ==
    [name |-> name, screen_mode |-> screen_mode, fixed_screen |-> fixed_screen,
     distribution |-> distribution, proxy |-> proxy, use_host_os |-> use_host_os,
     os_override |-> os_override, timezone |-> "GMT+00:00"]

\* the bodies POSTed to /api/profiles/enhanced
Bodies ==
    { Body(<<"B">>, "fixed_profile", Some(FullHD), None, Some(ProxyWithAuth),
           FALSE, Some("Windows")),
      Body(<<"D">>, "fixed_profile", None, None, None, TRUE, None),
      Body(<<"E">>, "random_session", None, None,
           Some(Url("socks5", None, None, Some("proxy.example.com"), Some(1080))),
           TRUE, None),
      Body(<<"F">>, "random_session", None, None, None, FALSE, None),
      Body(<<>>, "random_session", None, None, None, TRUE, None) }

(* ------------------------------ state ---------------------------------- *)
VARIABLES
    fernet,           \* CryptoManager._fernet: the key, None when the vault failed
    started,          \* whether ProfileManager() was constructed (the app serves)
    proxy_text,       \* the proxy URL a client submits, as the client wrote it
    proxy_data,       \* the proxy URL a client submits, as urlparse splits it
    request_body,     \* the body a client POSTs to /api/profiles/enhanced, or None
    host_os,          \* ProfileManager.host_os
    profiles,         \* ProfileManager.profiles: the list of Profile records
    store,            \* profiles.json: [readable, data]
    uuid_count,       \* how many uuid4 ids have been drawn
    active_sessions,  \* CamoufoxManager.active_sessions: profile id -> session
    session_configs,  \* CamoufoxManager.session_configs: profile id -> config
    browsers,         \* the engine: the handles of the open browsers
    tasks,            \* the background tasks and awaiting handlers in flight
    last,             \* what the latest step gave its caller
    save_failures     \* how many writes of profiles.json have failed in a row

\* what is fixed once the process has started
static == <<fernet, started, proxy_text, proxy_data, request_body, host_os>>

vars == <<static, profiles, store, uuid_count, active_sessions, session_configs,
          browsers, tasks, last, save_failures>>

ProfileIds == 0..MaxProfiles
NoId == 0 - 1

\* what the latest step gave its caller: the HTTP response of an endpoint
\* (status code and message), the bool a background coroutine returned
\* (status 1 for True, 0 for False), or Suspended for a step that ends in
\* an `await` of the engine
Http(status, detail) == [source |-> "http", status |-> status, detail |-> detail]
Returned(coroutine, success) ==
    [source |-> coroutine, status |-> IF success THEN 1 ELSE 0, detail |-> ""]
Suspended == [source |-> "await", status |-> 0, detail |-> ""]
NotFound == Http(404, "Profile not found")

(* ------------------------------ main.py: ProfileManager ---------------- *)
\* a record of profiles.json: every key Optional, None for a key that is
\* missing or null
Raw(id, name, os, timezone, status) ==
    [id |-> id, name |-> name, os |-> os, timezone |-> timezone, status |-> status,
     screen_mode |-> None, fixed_screen |-> None, distribution |-> None,
     proxy_encrypted |-> None, has_proxy |-> None, use_host_os |-> None,
     os_override |-> None, effective_os |-> None, created_at |-> None,
     config |-> None, warnings |-> None]

OrElse(o, default) == IF IsSome(o) THEN Get(o) ELSE default

\* an item of the JSON list that is not an object (a string, a number, null,
\* a list): it has no .get
NonDict == [scalar |-> "text"]
IsDict(profile_data) == "scalar" \notin DOMAIN profile_data

\* stands for a JSON number where the schema wants a string
NotAString == "<number>"

\* _migrate_legacy_profile were it to keep the OS of the legacy record
_migrate_legacy_profile_keeps_os(profile_data, host, uuid, now) ==
    IF IsSome(profile_data.screen_mode) THEN profile_data
    ELSE [profile_data EXCEPT
            !.id = Some(OrElse(profile_data.id, uuid)),
            !.name = Some(OrElse(profile_data.name,
                                 <<"M","i","g","r","a","t","e","d">>)),
            !.screen_mode = Some("random_session"),
            !.has_proxy = Some(FALSE),
            !.use_host_os = Some(TRUE),
            !.effective_os = Some(IF Truthy(profile_data.os)
                                  THEN lower(Get(profile_data.os)) ELSE host),
            !.timezone = Some(OrElse(profile_data.timezone, "GMT+00:00")),
            !.status = Some(OrElse(profile_data.status, "inactive")),
            !.created_at = Some(OrElse(profile_data.created_at, now)),
            !.warnings = Some(<<>>)]

\* ProfileManager._migrate_legacy_profile; uuid and now are the values
\* uuid4() and datetime.now() give when the record lacks id or created_at
_migrate_legacy_profile(profile_data, host, uuid, now) ==
    IF IsSome(profile_data.screen_mode) THEN profile_data
    ELSE [profile_data EXCEPT
            !.id = Some(OrElse(profile_data.id, uuid)),
            !.name = Some(OrElse(profile_data.name,
                                 <<"M","i","g","r","a","t","e","d">>)),
            !.screen_mode = Some("random_session"),
            !.fixed_screen = None,
            !.distribution = None,
            !.proxy_encrypted = None,
            !.has_proxy = Some(FALSE),
            !.use_host_os = Some(TRUE),
            !.os_override = None,
            !.effective_os = Some(host),
            !.timezone = Some(OrElse(profile_data.timezone, "GMT+00:00")),
            !.status = Some(OrElse(profile_data.status, "inactive")),
            !.created_at = Some(OrElse(profile_data.created_at, now)),
            !.warnings = Some(
                IF Truthy(profile_data.os) /\ lower(Get(profile_data.os)) # lower(host)
                THEN <<<<"Profile migrated from legacy OS to host OS",
                         Get(profile_data.os), host>>>>
                ELSE <<>>)]

\* Profile(**data): the required fields must be present and of their type,
\* the others default
Profile(data) ==
    IF IsNone(data.id) \/ IsNone(data.name) \/ IsNone(data.effective_os)
       \/ IsNone(data.created_at) \/ data.created_at = Some(NotAString)
    THEN [ok |-> FALSE]
    ELSE [ok |-> TRUE,
          profile |->
            [id |-> Get(data.id), name |-> Get(data.name),
             screen_mode |-> OrElse(data.screen_mode, "random_session"),
             fixed_screen |-> data.fixed_screen,
             distribution |-> data.distribution,
             proxy_encrypted |-> data.proxy_encrypted,
             has_proxy |-> OrElse(data.has_proxy, FALSE),
             use_host_os |-> OrElse(data.use_host_os, TRUE),
             os_override |-> data.os_override,
             effective_os |-> Get(data.effective_os),
             timezone |-> OrElse(data.timezone, "GMT+00:00"),
             status |-> OrElse(data.status, "inactive"),
             created_at |-> Get(data.created_at),
             config |-> data.config,
             warnings |-> OrElse(data.warnings, <<>>)]]

RECURSIVE load_profiles(_, _, _)
\* ProfileManager.load_profiles over the items of a readable store: a
\* record that Profile(**) rejects is skipped. For an item that is not a
\* dict the handler of the inner except calls profile_data.get itself, the
\* AttributeError reaches the outer except and the list is reset to [].
load_profiles(data, host, now) ==
    IF Len(data) = 0 THEN <<>>
    ELSE IF \E i \in 1..Len(data) : ~IsDict(data[i]) THEN <<>>
    ELSE LET p == Profile(_migrate_legacy_profile(Head(data), host, NoId, now)) IN
         (IF p.ok THEN <<p.profile>> ELSE <<>>)
         \o load_profiles(Tail(data), host, now)

\* a record of profiles.json in the current schema, written by an earlier
\* run: a fixed_profile profile whose config bundle is null
Stored(id, status) ==
    [Raw(Some(id), Some(<<"S">>), None, Some("GMT+00:00"), Some(status)) EXCEPT
        !.screen_mode = Some("fixed_profile"),
        !.fixed_screen = Some(ScreenSize(1366, 768, 1200, 700, 1)),
        !.has_proxy = Some(FALSE),
        !.use_host_os = Some(TRUE),
        !.effective_os = Some("linux"),
        !.created_at = Some("t0"),
        !.warnings = Some(<<>>)]

\* a record an earlier run wrote for a profile with a proxy, the browser of
\* which was open when that run ended: its status is still "active", and its
\* ciphertext was made under the key of that run
StoredWithProxy(id, ciphertext) ==
    [Stored(id, "active") EXCEPT
        !.proxy_encrypted = Some(ciphertext),
        !.has_proxy = Some(TRUE)]

\* what profiles.json can hold when the process starts
InitStores == { <<>>, << Stored(0, "inactive") >> }

\* ProfileManager.get_profile: the first profile with that id, or None
get_profile(profile_id) ==
    LET hits == {i \in 1..Len(profiles) : profiles[i].id = profile_id} IN
    IF hits = {} THEN None
    ELSE Some(profiles[CHOOSE i \in hits : \A j \in hits : i <= j])

\* the outcomes of writing profiles.json
SaveOutcomes == {"written", "open_failed", "write_failed"}

\* ProfileManager.save_profiles: the file after writing the list; the error
\* of a failed write is logged and swallowed. open() failing leaves the file
\* as it was, a failure after open() leaves it truncated.
save_profiles(list, file, outcome) ==
    IF outcome = "written" THEN [readable |-> TRUE, data |-> list]
    ELSE IF outcome = "open_failed" THEN file
    ELSE [readable |-> FALSE, data |-> <<>>]

\* the write of the list to profiles.json as a step: the file and the count
\* of writes that failed in a row afterwards
Save(list, outcome) ==
    /\ outcome # "written" => save_failures < MaxSaveFailures
    /\ store' = save_profiles(list, store, outcome)
    /\ save_failures' = IF outcome = "written" THEN 0 ELSE save_failures + 1

\* ProfileManager.generate_enhanced_camoufox_config; a key the code leaves
\* out of the dict is None here
generate_enhanced_camoufox_config(effective_os, timezone, screen_mode, fixed_screen, distribution) ==
    [effective_os |-> effective_os, timezone |-> timezone,
     locale_language |-> "en", locale_region |-> "US",
     humanize |-> TRUE, showcursor |-> TRUE, headless |-> FALSE,
     screen_mode |-> screen_mode,
     fixed_screen |-> IF screen_mode = "fixed_profile" /\ IsSome(fixed_screen)
                      THEN fixed_screen ELSE None,
     distribution |-> IF ~(screen_mode = "fixed_profile" /\ IsSome(fixed_screen))
                         /\ screen_mode = "custom_distribution"
                         /\ IsSome(distribution)
                      THEN distribution ELSE None]

\* the Profile were create_enhanced_profile to keep the proxy URL as given
NewProfile_keeps_plaintext(request, validation, profile_id, now) ==
    [id |-> profile_id, name |-> request.name,
     screen_mode |-> request.screen_mode,
     fixed_screen |-> request.fixed_screen,
     distribution |-> IF IsSome(request.distribution)
                         /\ Len(Get(request.distribution)) > 0
                      THEN request.distribution ELSE None,
     proxy_encrypted |-> request.proxy,
     has_proxy |-> IsSome(request.proxy),
     use_host_os |-> request.use_host_os,
     os_override |-> request.os_override,
     effective_os |-> validation.effective_os,
     timezone |-> request.timezone,
     status |-> "inactive",
     created_at |-> now,
     config |-> Some(generate_enhanced_camoufox_config(
                    validation.effective_os, request.timezone,
                    request.screen_mode, request.fixed_screen,
                    request.distribution)),
     warnings |-> validation.warnings]

\* the Profile create_enhanced_profile builds from a request and its
\* validation
NewProfile(request, validation, profile_id, now) ==
    LET fixed_screen == request.fixed_screen
        distribution == IF IsSome(request.distribution)
                           /\ Len(Get(request.distribution)) > 0
                        THEN request.distribution ELSE None
    IN [id |-> profile_id, name |-> request.name,
        screen_mode |-> request.screen_mode,
        fixed_screen |-> fixed_screen,
        distribution |-> distribution,
        proxy_encrypted |-> IF IsSome(request.proxy)
                            THEN Some(encrypt(Get(request.proxy))) ELSE None,
        has_proxy |-> IsSome(request.proxy),
        use_host_os |-> request.use_host_os,
        os_override |-> request.os_override,
        effective_os |-> validation.effective_os,
        timezone |-> request.timezone,
        status |-> "inactive",
        created_at |-> now,
        config |-> Some(generate_enhanced_camoufox_config(
                       validation.effective_os, request.timezone,
                       request.screen_mode, fixed_screen, distribution)),
        warnings |-> validation.warnings]

\* create_enhanced_profile were it to append the profile before the
\* credentials are encrypted: a failing encrypt leaves the profile in the list
create_enhanced_profile_appends_first(request, now, encrypt_raises, save) ==
    LET validation == validate_profile_create_request(request, host_os)
        profile_id == uuid_count + 1
        profile == NewProfile(request, validation, profile_id, now)
    IN /\ uuid_count < MaxProfiles
       /\ uuid_count' = profile_id
       /\ profiles' = Append(profiles, profile)
       /\ IF ~validation.valid \/ (IsSome(request.proxy) /\ encrypt_raises)
          THEN /\ last' = Http(500, IF ~validation.valid
                                    THEN "Profile validation failed"
                                    ELSE "Failed to securely store proxy credentials")
               /\ UNCHANGED <<store, save_failures>>
          ELSE /\ Save(profiles', save)
               /\ last' = Http(200, "created")

\* ProfileManager.create_enhanced_profile: ValueError (the endpoint answers
\* 500) when validation fails or encrypt raises, else the profile is appended
\* and saved
create_enhanced_profile(request, now, encrypt_raises, save) ==
    LET validation == validate_profile_create_request(request, host_os)
        profile_id == uuid_count + 1
        profile == NewProfile(request, validation, profile_id, now)
    IN IF ~validation.valid \/ (IsSome(request.proxy) /\ encrypt_raises)
       THEN /\ last' = Http(500, IF ~validation.valid THEN "Profile validation failed"
                            ELSE "Failed to securely store proxy credentials")
            /\ UNCHANGED <<profiles, store, uuid_count, save_failures>>
       ELSE /\ uuid_count < MaxProfiles
            /\ uuid_count' = profile_id
            /\ profiles' = Append(profiles, profile)
            /\ Save(profiles', save)
            /\ last' = Http(200, "created")

\* POST /api/profiles/enhanced
create_enhanced_profile_endpoint(body) ==
    /\ IF ProfileCreateRequest(body).ok
       THEN \E now \in Times, encrypt_raises \in BOOLEAN, save \in SaveOutcomes :
              create_enhanced_profile(ProfileCreateRequest(body).request, now,
                                      encrypt_raises, save)
       ELSE /\ last' = Http(422, "validation error")
            /\ UNCHANGED <<profiles, store, uuid_count, save_failures>>
    /\ UNCHANGED <<static, active_sessions, session_configs, browsers, tasks>>

\* get_profile_proxy were it to take what the token holds without the check
\* of the key
get_profile_proxy_unchecked(profile) ==
    IF ~profile.has_proxy \/ IsNone(profile.proxy_encrypted) THEN None
    ELSE Some(Get(profile.proxy_encrypted).plaintext)

\* ProfileManager.get_profile_proxy: the decrypted proxy URL, or None when the
\* profile has none or decrypt raises
get_profile_proxy(profile) ==
    IF ~profile.has_proxy \/ IsNone(profile.proxy_encrypted) THEN None
    ELSE IF decrypt(Get(profile.proxy_encrypted)).ok
    THEN Some(decrypt(Get(profile.proxy_encrypted)).plaintext)
    ELSE None

\* ProfileResponse.from_profile were it to copy the Profile whole, the
\* encrypted proxy with it
from_profile_whole(profile, proxy_url) ==
    [id |-> profile.id, name |-> profile.name,
     screen_mode |-> profile.screen_mode,
     fixed_screen |-> profile.fixed_screen,
     distribution |-> profile.distribution,
     has_proxy |-> profile.has_proxy,
     proxy_encrypted |-> profile.proxy_encrypted,
     proxy_host |-> IF IsNone(proxy_url) THEN None ELSE Some(<<"configured">>),
     use_host_os |-> profile.use_host_os,
     os_override |-> profile.os_override,
     effective_os |-> profile.effective_os,
     timezone |-> profile.timezone,
     status |-> profile.status,
     created_at |-> profile.created_at,
     warnings |-> profile.warnings]

\* ProfileResponse.from_profile: the fields of the response model; proxy_host
\* is "host:port" of the proxy URL given, "configured" when it does not
\* parse, None without one
from_profile(profile, proxy_url) ==
    [id |-> profile.id, name |-> profile.name,
     screen_mode |-> profile.screen_mode,
     fixed_screen |-> profile.fixed_screen,
     distribution |-> profile.distribution,
     has_proxy |-> profile.has_proxy,
     proxy_host |-> IF IsNone(proxy_url) THEN None
                    ELSE IF parse_proxy_url(Get(proxy_url)).ok
                    THEN Some(<<parse_proxy_url(Get(proxy_url)).config.host, ":",
                                str(parse_proxy_url(Get(proxy_url)).config.port)>>)
                    ELSE Some(<<"configured">>),
     use_host_os |-> profile.use_host_os,
     os_override |-> profile.os_override,
     effective_os |-> profile.effective_os,
     timezone |-> profile.timezone,
     status |-> profile.status,
     created_at |-> profile.created_at,
     warnings |-> profile.warnings]

\* GET /api/profiles: the response body
get_profiles == [i \in 1..Len(profiles) |-> from_profile(profiles[i], None)]

\* GET /api/profiles/{id} and the body of a successful POST
\* /api/profiles/enhanced: the response for a profile of the registry
get_profile_response(profile) ==
    from_profile(profile, IF profile.has_proxy THEN get_profile_proxy(profile)
                          ELSE None)

\* the list with the profile of that id replaced (a mutation of the Profile
\* object the list holds)
SetProfile(list, profile) ==
    [i \in 1..Len(list) |-> IF list[i].id = profile.id THEN profile ELSE list[i]]

(* ------------------------------ tasks ---------------------------------- *)
\* A background task (BackgroundTasks.add_task, asyncio.create_task) or a
\* handler suspended in an engine call: the coroutine, the profile id it was
\* called with, where it is suspended, and the locals it holds. `tasks` is
\* the bag of those in flight.
Task(kind, id, pc, handle, session_config) ==
    [kind |-> kind, id |-> id, pc |-> pc, handle |-> handle,
     session_config |-> session_config]

NoHandle == 0

InFlight == BagToSet(tasks)
CanSpawn == BagCardinality(tasks) < MaxTasks
Spawn(task) == tasks (+) SetToBag({task})
Finish(task) == tasks (-) SetToBag({task})
Become(task, next) == (tasks (-) SetToBag({task})) (+) SetToBag({next})

\* the handles no open browser, session or task refers to
FreeHandles ==
    {h \in 1..MaxBrowsers :
        /\ h \notin browsers
        /\ \A id \in DOMAIN active_sessions : active_sessions[id].browser # h
        /\ \A task \in InFlight : task.handle # h}
NewHandle == CHOOSE h \in FreeHandles : \A other \in FreeHandles : h <= other

Put(f, k, v) == [x \in DOMAIN f \cup {k} |-> IF x = k THEN v ELSE f[x]]
Drop(f, k) == [x \in DOMAIN f \ {k} |-> f[x]]

(* ------------------------------ camoufox_manager.py -------------------- *)
\* the import of camoufox at module load. Were it to fail, the handler of
\* the ImportError uses `logger` before its definition and the module, and
\* with it main.py, fails to load: a running backend has it TRUE.
CAMOUFOX_AVAILABLE == TRUE

\* CamoufoxManager.is_session_active
is_session_active(profile_id) == profile_id \in DOMAIN active_sessions

\* the session_config dict of create_enhanced_browser_session
SessionConfig(config, effective_os, screen_mode, selected_screen, proxy_url) ==
    [timezone |-> config.timezone,
     locale_language |-> config.locale_language,
     locale_region |-> config.locale_region,
     showcursor |-> config.showcursor,
     effective_os |-> effective_os,
     screen_mode |-> screen_mode,
     selected_screen |-> selected_screen,
     humanize |-> config.humanize,
     headless |-> config.headless,
     has_proxy |-> IsSome(proxy_url),
     proxy_host |-> IF IsSome(proxy_url)
                    THEN Some(<<parse_proxy_url(Get(proxy_url)).config.host,
                                parse_proxy_url(Get(proxy_url)).config.port>>)
                    ELSE None]

\* delete_profile were it to remove the profile without starting the
\* teardown of its session
delete_profile_without_teardown(profile_id, save) ==
    /\ UNCHANGED tasks
    /\ profiles' = SelectSeq(profiles, LAMBDA p : p.id # profile_id)
    /\ Save(profiles', save)
    /\ last' = Http(200, "Profile deleted successfully")

\* ProfileManager.delete_profile, called by DELETE /api/profiles/{id} once
\* get_profile found the profile
delete_profile(profile_id, save) ==
    /\ IF is_session_active(profile_id)
       THEN /\ CanSpawn
            /\ tasks' = Spawn(Task("close_browser_session", profile_id, "queued",
                                   NoHandle, None))
       ELSE UNCHANGED tasks
    /\ profiles' = SelectSeq(profiles, LAMBDA p : p.id # profile_id)
    /\ Save(profiles', save)
    /\ last' = Http(200, "Profile deleted successfully")

\* DELETE /api/profiles/{id}
delete_profile_endpoint(profile_id) ==
    /\ IF IsNone(get_profile(profile_id))
       THEN /\ last' = NotFound
            /\ UNCHANGED <<profiles, store, tasks, save_failures>>
       ELSE \E save \in SaveOutcomes : delete_profile(profile_id, save)
    /\ UNCHANGED <<static, uuid_count, active_sessions, session_configs, browsers>>

\* the launch endpoint were it to skip the check of an active session
launch_profile_unchecked(profile_id) ==
    /\ IF IsNone(get_profile(profile_id))
       THEN /\ last' = NotFound
            /\ UNCHANGED tasks
       ELSE /\ CanSpawn
            /\ tasks' = Spawn(Task("launch_browser", profile_id, "queued",
                                   NoHandle, None))
            /\ last' = Http(200, "Browser launch initiated")
    /\ UNCHANGED <<static, profiles, store, uuid_count, active_sessions,
                   session_configs, browsers, save_failures>>

\* POST /api/profiles/{id}/launch
launch_profile(profile_id) ==
    /\ IF IsNone(get_profile(profile_id))
       THEN /\ last' = NotFound
            /\ UNCHANGED tasks
       ELSE IF is_session_active(profile_id)
       THEN /\ last' = Http(400, "Profile is already active")
            /\ UNCHANGED tasks
       ELSE /\ CanSpawn
            /\ tasks' = Spawn(Task("launch_browser", profile_id, "queued",
                                   NoHandle, None))
            /\ last' = Http(200, "Browser launch initiated")
    /\ UNCHANGED <<static, profiles, store, uuid_count, active_sessions,
                   session_configs, browsers, save_failures>>

\* ProfileManager.launch_browser up to the first suspension of
\* create_enhanced_browser_session, `await browser_manager.__aenter__()`
launch_browser_begin(task, launch_options_raises) ==
    /\ task.kind = "launch_browser" /\ task.pc = "queued"
    /\ IF IsNone(get_profile(task.id))
       THEN /\ tasks' = Finish(task)
            /\ last' = Returned("launch_browser", FALSE)
            /\ UNCHANGED profiles
       ELSE LET profile == Get(get_profile(task.id))
                proxy_url == get_profile_proxy(profile)
                generated ==
                    IF IsSome(profile.config) THEN Get(profile.config)
                    ELSE generate_enhanced_camoufox_config(
                            profile.effective_os, profile.timezone,
                            profile.screen_mode, profile.fixed_screen,
                            profile.distribution)
                config == [generated EXCEPT !.showcursor = TRUE, !.headless = FALSE]
                proxy_bad == IsSome(proxy_url) /\ ~parse_proxy_url(Get(proxy_url)).ok
            IN /\ profiles' = SetProfile(profiles, [profile EXCEPT !.config = Some(config)])
               /\ IF ~CAMOUFOX_AVAILABLE \/ proxy_bad \/ launch_options_raises
                  THEN /\ tasks' = Finish(task)
                       /\ last' = Returned("launch_browser", FALSE)
                  ELSE \E selected_screen \in select_screen_for_profile(
                              [screen_mode |-> profile.screen_mode,
                               fixed_screen |-> profile.fixed_screen,
                               distribution |-> profile.distribution]) :
                         /\ tasks' = Become(task,
                                Task("launch_browser", task.id, "aenter", NoHandle,
                                     Some(SessionConfig(config, profile.effective_os,
                                                        profile.screen_mode,
                                                        selected_screen, proxy_url))))
                         /\ last' = Suspended
    /\ UNCHANGED <<static, store, uuid_count, active_sessions, session_configs,
                   browsers, save_failures>>

\* `await browser_manager.__aenter__()` returns a browser or raises
launch_browser_aenter(task, raises) ==
    /\ task.kind = "launch_browser" /\ task.pc = "aenter"
    /\ IF raises
       THEN /\ tasks' = Finish(task)
            /\ last' = Returned("launch_browser", FALSE)
            /\ UNCHANGED browsers
       ELSE /\ FreeHandles # {}
            /\ browsers' = browsers \cup {NewHandle}
            /\ tasks' = Become(task, [task EXCEPT !.pc = "new_page", !.handle = NewHandle])
            /\ last' = Suspended
    /\ UNCHANGED <<static, profiles, store, uuid_count, active_sessions,
                   session_configs, save_failures>>

\* `await browser.new_page()` and `await page.bring_to_front()` return or one
\* of them raises (nothing of the backend changes between the two); on
\* return the session is stored and launch_browser marks the profile active
launch_browser_page(task, raises, now, save) ==
    /\ task.kind = "launch_browser" /\ task.pc = "new_page"
    /\ tasks' = Finish(task)
    /\ IF raises
       THEN /\ last' = Returned("launch_browser", FALSE)
            /\ UNCHANGED <<profiles, store, active_sessions, session_configs,
                           save_failures>>
       ELSE /\ active_sessions' = Put(active_sessions, task.id,
                   [browser |-> task.handle,
                    config |-> Get(task.session_config),
                    created_at |-> now,
                    screen_config |-> Get(task.session_config).selected_screen])
            /\ session_configs' = Put(session_configs, task.id,
                                      Get(task.session_config))
            /\ profiles' = [i \in 1..Len(profiles) |->
                               IF profiles[i].id = task.id
                               THEN [profiles[i] EXCEPT !.status = "active"]
                               ELSE profiles[i]]
            /\ Save(profiles', save)
            /\ last' = Returned("launch_browser", TRUE)
    /\ UNCHANGED <<static, uuid_count, browsers>>

\* the stop endpoint were it to skip the check of an active session
stop_profile_unchecked(profile_id) ==
    /\ IF IsNone(get_profile(profile_id))
       THEN /\ last' = NotFound
            /\ UNCHANGED tasks
       ELSE /\ CanSpawn
            /\ tasks' = Spawn(Task("stop_browser", profile_id, "queued", NoHandle, None))
            /\ last' = Http(200, "Browser stop initiated")
    /\ UNCHANGED <<static, profiles, store, uuid_count, active_sessions,
                   session_configs, browsers, save_failures>>

\* POST /api/profiles/{id}/stop
stop_profile(profile_id) ==
    /\ IF IsNone(get_profile(profile_id))
       THEN /\ last' = NotFound
            /\ UNCHANGED tasks
       ELSE IF ~is_session_active(profile_id)
       THEN /\ last' = Http(400, "Profile is not active")
            /\ UNCHANGED tasks
       ELSE /\ CanSpawn
            /\ tasks' = Spawn(Task("stop_browser", profile_id, "queued", NoHandle, None))
            /\ last' = Http(200, "Browser stop initiated")
    /\ UNCHANGED <<static, profiles, store, uuid_count, active_sessions,
                   session_configs, browsers, save_failures>>

\* CamoufoxManager.close_browser_session up to its suspension,
\* `await browser_manager.__aexit__(None, None, None)`; it runs inside
\* stop_browser or as the task delete_profile created
close_browser_session_begin(task) ==
    /\ task.kind \in {"stop_browser", "close_browser_session"} /\ task.pc = "queued"
    /\ IF task.id \notin DOMAIN active_sessions
       THEN /\ tasks' = Finish(task)
            /\ last' = Returned(task.kind, FALSE)
       ELSE /\ tasks' = Become(task, [task EXCEPT !.pc = "aexit",
                                       !.handle = active_sessions[task.id].browser])
            /\ last' = Suspended
    /\ UNCHANGED <<static, profiles, store, uuid_count, active_sessions,
                   session_configs, browsers, save_failures>>

\* `await browser_manager.__aexit__(...)` returns or raises, and the rest of
\* close_browser_session and of stop_browser. A raising __aexit__ may or
\* may not have closed the browser (still_open).
close_browser_session_end(task, raises, still_open, save) ==
    /\ task.kind \in {"stop_browser", "close_browser_session"} /\ task.pc = "aexit"
    /\ tasks' = Finish(task)
    /\ browsers' = IF raises /\ still_open THEN browsers ELSE browsers \ {task.handle}
    /\ IF raises \/ task.id \notin DOMAIN active_sessions
       THEN /\ last' = Returned(task.kind, FALSE)
            /\ UNCHANGED <<profiles, store, active_sessions, session_configs,
                           save_failures>>
       ELSE /\ active_sessions' = Drop(active_sessions, task.id)
            /\ session_configs' = Drop(session_configs, task.id)
            /\ last' = Returned(task.kind, TRUE)
            /\ IF task.kind = "stop_browser" /\ IsSome(get_profile(task.id))
               THEN /\ profiles' = SetProfile(profiles,
                          [Get(get_profile(task.id)) EXCEPT !.status = "inactive"])
                    /\ Save(profiles', save)
               ELSE UNCHANGED <<profiles, store, save_failures>>
    /\ UNCHANGED <<static, uuid_count>>

\* the navigate endpoint were a failed navigation to discard the session
navigate_profile_discards(profile_id, raises) ==
    LET failed == /\ IsSome(get_profile(profile_id))
                  /\ is_session_active(profile_id)
                  /\ (raises \/ active_sessions[profile_id].browser \notin browsers)
    IN /\ last' = IF IsNone(get_profile(profile_id)) THEN NotFound
                  ELSE IF ~is_session_active(profile_id)
                  THEN Http(400, "Profile is not active")
                  ELSE IF failed THEN Http(500, "Failed to navigate")
                  ELSE Http(200, "Navigated")
       /\ active_sessions' = IF failed THEN Drop(active_sessions, profile_id)
                             ELSE active_sessions
       /\ session_configs' = IF failed THEN Drop(session_configs, profile_id)
                             ELSE session_configs
       /\ UNCHANGED <<static, profiles, store, uuid_count, browsers, tasks,
                      save_failures>>

\* POST /api/profiles/{id}/navigate with CamoufoxManager.navigate_to_url:
\* `await page.goto(url)` returns or raises. The suspended handler holds only
\* the page and, resumed, reads and writes nothing of the backend, so the
\* call and its return are one step.
navigate_profile(profile_id, raises) ==
    /\ last' = IF IsNone(get_profile(profile_id)) THEN NotFound
               ELSE IF ~is_session_active(profile_id)
               THEN Http(400, "Profile is not active")
               ELSE IF raises
                       \/ active_sessions[profile_id].browser \notin browsers
               THEN Http(500, "Failed to navigate")
               ELSE Http(200, "Navigated")
    /\ UNCHANGED <<static, profiles, store, uuid_count, active_sessions,
                   session_configs, browsers, tasks, save_failures>>

\* CamoufoxManager._get_config_summary: proxy_host is copied when the session
\* config has one
_get_config_summary(config) ==
    [timezone |-> config.timezone,
     effective_os |-> config.effective_os,
     screen_mode |-> config.screen_mode,
     humanize |-> config.humanize,
     has_proxy |-> config.has_proxy,
     addons_count |-> 0,
     fonts_count |-> 0,
     screen_resolution |-> <<config.selected_screen.screen_width,
                             config.selected_screen.screen_height>>,
     window_size |-> <<config.selected_screen.window_width,
                       config.selected_screen.window_height>>,
     proxy_host |-> config.proxy_host]

\* CamoufoxManager.get_session_info: None without a session; with one, the
\* dict it builds reads session["fingerprint"], a key no session has, and
\* the KeyError leaves the function
get_session_info(profile_id) ==
    IF profile_id \notin DOMAIN active_sessions
    THEN [ok |-> TRUE, info |-> None]
    ELSE [ok |-> FALSE, error |-> "KeyError: 'fingerprint'"]

\* GET /api/profiles/{id}/status; an exception the handler does not catch is
\* answered with 500
get_profile_status(profile_id) ==
    /\ last' = IF IsNone(get_profile(profile_id)) THEN NotFound
               ELSE IF ~get_session_info(profile_id).ok
               THEN Http(500, "Internal Server Error")
               ELSE IF IsSome(get_session_info(profile_id).info)
               THEN Http(200, "active")
               ELSE Http(200, "inactive")
    /\ UNCHANGED <<static, profiles, store, uuid_count, active_sessions,
                   session_configs, browsers, tasks, save_failures>>

\* POST /api/validate-proxy with the body {"proxy": proxy_data}
validate_proxy_endpoint ==
    /\ last' = IF IsNone(proxy_text) \/ Len(Get(proxy_text)) = 0
               THEN Http(400, "proxy field is required")
               ELSE Http(200, IF validate_proxy_url(Get(proxy_data)).valid
                              THEN "valid" ELSE "invalid")
    /\ UNCHANGED <<static, profiles, store, uuid_count, active_sessions,
                   session_configs, browsers, tasks, save_failures>>

(* ------------------------------ specification -------------------------- *)
\* the outcomes of CryptoManager._initialize_encryption: the key file was
\* read or written, or one of open(), Fernet(key), chmod raised
VaultOutcomes == {"initialized", "failed"}

\* CryptoManager._initialize_encryption: the value of _fernet, None when the
\* RuntimeError left no manager behind
_initialize_encryption(outcome) ==
    IF outcome = "failed" THEN None ELSE Some(fernet_key)

\* is_encryption_available
is_encryption_available == IsSome(fernet)

\* ProfileManager.__init__ were it to skip the check of the vault
__init__unchecked(available, host, data, now) ==
    [started |-> TRUE, profiles |-> load_profiles(data, host, now)]

\* ProfileManager.__init__: construction raises RuntimeError (started FALSE,
\* nothing loaded) when encryption is not available, and loads the store
\* otherwise
__init__(available, host, data, now) ==
    IF ~available THEN [started |-> FALSE, profiles |-> <<>>]
    ELSE [started |-> TRUE, profiles |-> load_profiles(data, host, now)]

\* the state once main.py has been imported, for the stores, the client
\* inputs and the platforms given
InitOn(stores, texts, bodies, systems) ==
    /\ fernet \in {_initialize_encryption(outcome) : outcome \in VaultOutcomes}
    /\ proxy_text \in texts
    /\ proxy_data = (IF IsNone(proxy_text) THEN None
                     ELSE Some(urlparse(Get(proxy_text))))
    /\ request_body \in bodies
    /\ host_os \in {detect_host_os(system) : system \in systems}
    /\ \E data \in stores, now \in Times :
         /\ store = [readable |-> TRUE, data |-> data]
         /\ started = __init__(is_encryption_available, host_os, data, now).started
         /\ profiles = __init__(is_encryption_available, host_os, data, now).profiles
    /\ uuid_count = 0
    /\ active_sessions = [id \in {} |-> 0]
    /\ session_configs = [id \in {} |-> 0]
    /\ browsers = {}
    /\ tasks = EmptyBag
    /\ last = Suspended
    /\ save_failures = 0

\* the same on the host of HostSystems, for a client that submits proxy URLs
InitText(stores, texts) == InitOn(stores, texts, {None}, HostSystems)

\* the same for client inputs given as urlparse splits them
InitWith(stores, inputs) ==
    InitText(stores, {IF IsNone(url) THEN None ELSE Some(geturl(Get(url))) :
                        url \in inputs})

Init == InitWith(InitStores, {Some(ProxyWithAuth)})

\* the steps of the task in flight `task`
TaskStep(task) ==
    \/ \E raises \in BOOLEAN : launch_browser_begin(task, raises)
    \/ \E raises \in BOOLEAN : launch_browser_aenter(task, raises)
    \/ \E raises \in BOOLEAN, now \in Times, save \in SaveOutcomes :
          launch_browser_page(task, raises, now, save)
    \/ close_browser_session_begin(task)
    \/ \E raises \in BOOLEAN, still_open \in BOOLEAN, save \in SaveOutcomes :
          close_browser_session_end(task, raises, still_open, save)

\* the requests of the session endpoints
SessionRequest(profile_id) ==
    \/ launch_profile(profile_id)
    \/ stop_profile(profile_id)
    \/ \E raises \in BOOLEAN : navigate_profile(profile_id, raises)
    \/ get_profile_status(profile_id)

\* The backend with every endpoint in use, at most MaxLive profiles in the
\* registry at a time and at most MaxLive profiles created.
Next ==
    \/ \E body \in Bodies :
          /\ started
          /\ Len(profiles) < MaxLive /\ uuid_count < MaxLive
          /\ create_enhanced_profile_endpoint(body)
    \/ \E profile_id \in ProfileIds : started /\ delete_profile_endpoint(profile_id)
    \/ \E profile_id \in ProfileIds : started /\ SessionRequest(profile_id)
    \/ \E task \in InFlight : TaskStep(task)

Spec == Init /\ [][Next]_vars

\* The backend with the profile endpoints alone in use: no session is ever
\* launched, and the registry holds up to MaxProfiles + 1 profiles.
NextRegistry ==
    \/ \E body \in Bodies : started /\ create_enhanced_profile_endpoint(body)
    \/ \E profile_id \in ProfileIds : started /\ delete_profile_endpoint(profile_id)

RegistrySpec == Init /\ [][NextRegistry]_vars

\* The backend started again after a run that ended with a browser open and
\* whose key file was lost: the store holds a profile with status "active"
\* and a ciphertext the new key does not open.
RestartSpec ==
    InitWith({<< StoredWithProxy(0, [key |-> "key0", plaintext |-> ProxyWithAuth,
                                     intact |-> TRUE]) >>},
             {Some(ProxyWithAuth)})
    /\ [][Next]_vars

\* records profiles.json may hold: of the current schema (complete, without
\* a required field, with a number as created_at), of the legacy schema
\* (with an OS other than the host's, with the host's, with no key at all,
\* with a number as created_at), and an item that is no object
StoredRecords ==
    { Stored(0, "inactive"),
      [Stored(1, "inactive") EXCEPT !.effective_os = None],
      [Stored(1, "inactive") EXCEPT !.created_at = Some(NotAString)],
      Raw(Some(1), Some(<<"L">>), Some("Windows"), Some("GMT+01:00"), Some("active")),
      Raw(Some(2), Some(<<"H">>), Some("Linux"), Some("GMT+00:00"), Some("inactive")),
      Raw(None, None, None, None, None),
      [Raw(Some(2), Some(<<"N">>), None, None, None) EXCEPT
          !.created_at = Some(NotAString)],
      NonDict }

\* items in profiles.json
MaxRecords == 2

StoredLists ==
    UNION {[1..n -> StoredRecords] : n \in 0..MaxRecords}

\* The backend started on any of the stores, its profiles then deleted.
NextLoad ==
    \E profile_id \in ProfileIds : started /\ delete_profile_endpoint(profile_id)

LoadSpec == InitWith(StoredLists, {Some(ProxyWithAuth)}) /\ [][NextLoad]_vars

\* the proxy URLs a client submits, as urlparse splits them
ProxyUrls ==
    {Url(scheme, auth[1], auth[2], hostname, port) :
        scheme \in {"http", "https", "socks5"},
        auth \in {<<None, None>>, <<Some("user"), Some("pass")>>,
                  <<Some("user"), None>>, <<Some(""), Some("pass")>>},
        hostname \in {None, Some("proxy.example.com"), Some("localhost")},
        port \in {None, Some(0), Some(1), Some(8080), Some(MaxPort),
                  Some(MaxPort + 1)}}

\* the body of a create that carries the client's proxy URL
ProxyBody == Body(<<"P">>, "random_session", None, None, proxy_data, TRUE, None)

\* The backend with a client that validates its proxy URL and creates
\* profiles with it.
NextProxy ==
    \/ started /\ validate_proxy_endpoint
    \/ started /\ create_enhanced_profile_endpoint(ProxyBody)
    \/ \E profile_id \in ProfileIds : started /\ delete_profile_endpoint(profile_id)

ProxySpec ==
    InitWith(InitStores, {None} \cup {Some(url) : url \in ProxyUrls})
    /\ [][NextProxy]_vars

\* the fixed sizes and the distributions the clients send: sound ones, and
\* ones with a dimension or weight that is not positive, a window larger
\* than the screen, a very small and a very large screen
ZeroWidth == ScreenSize(0, 1080, 1500, 900, 1)
ZeroWeight == ScreenSize(1920, 1080, 1500, 900, 0)
NegativeWindow == ScreenSize(1920, 1080, 0 - 1, 900, 1)
WindowTooLarge == ScreenSize(1024, 768, 1200, 900, 1)
Tiny == ScreenSize(640, 480, 320, 200, 1)
Huge == ScreenSize(8000, 5000, 1500, 900, 1)

FixedScreens ==
    {None, Some(FullHD), Some(ZeroWidth), Some(ZeroWeight), Some(NegativeWindow),
     Some(WindowTooLarge), Some(Tiny), Some(Huge)}

Distributions ==
    {None, Some(<<>>), Some(<<FullHD>>), Some(<<ZeroWeight>>), Some(<<Tiny, Huge>>),
     Some(<<[FullHD EXCEPT !.weight = 2], [Tiny EXCEPT !.weight = 0 - 2]>>)}

\* use_host_os and os_override as the clients send them
OsChoices ==
    {<<TRUE, None>>, <<TRUE, Some("Windows")>>, <<FALSE, None>>,
     <<FALSE, Some("Windows")>>, <<FALSE, Some("linux")>>, <<FALSE, Some("beos")>>,
     <<FALSE, Some("")>>}

\* platform.system() of the hosts the backend runs on
AllSystems == {"Linux", "Windows", "Darwin", "FreeBSD"}

\* the bodies a client POSTs to /api/profiles/enhanced: every screen mode
\* with every payload, and every choice of OS with and without a proxy
RequestBodies ==
    {Body(<<"R">>, screen_mode, fixed_screen, distribution, None, TRUE, None) :
        screen_mode \in {"random_session", "fixed_profile", "custom_distribution",
                         "fullscreen"},
        fixed_screen \in FixedScreens, distribution \in Distributions}
    \cup {Body(<<"R">>, "random_session", None, None, proxy, os[1], os[2]) :
            proxy \in {None, Some(ProxyWithAuth),
                       Some(Url("socks5", None, None, Some("proxy.example.com"),
                                Some(1080)))},
            os \in OsChoices}

\* The backend on any host with a client that POSTs one body of
\* RequestBodies, again and again, and deletes profiles.
NextRequest ==
    \/ started /\ IsSome(request_body)
       /\ create_enhanced_profile_endpoint(Get(request_body))
    \/ \E profile_id \in ProfileIds : started /\ delete_profile_endpoint(profile_id)

RequestSpec ==
    InitOn(InitStores, {None}, {Some(body) : body \in RequestBodies}, AllSystems)
    /\ [][NextRequest]_vars

\* a record of profiles.json with the screen configuration given
StoredScreen(screen_mode, fixed_screen, distribution) ==
    [Stored(0, "inactive") EXCEPT
        !.screen_mode = Some(screen_mode),
        !.fixed_screen = fixed_screen,
        !.distribution = distribution]

\* a size without its weight, without its width, and with null for its width
NoWeight ==
    [screen_width |-> 1920, screen_height |-> 1080,
     window_width |-> 1500, window_height |-> 900]
NoWidth == [screen_height |-> 1080, window_width |-> 1500, window_height |-> 900]
NullWidth == [FullHD EXCEPT !.screen_width = null]

\* the screen configurations profiles.json can hold: what the backend wrote
\* itself, and dicts that lack keys or hold null
StoredScreens ==
    {StoredScreen("fixed_profile", fixed_screen, None) :
        fixed_screen \in {None, Some(<<>>), Some(FullHD), Some(ZeroWidth),
                          Some(NoWeight), Some(NoWidth), Some(NullWidth)}}
    \cup {StoredScreen("custom_distribution", None, distribution) :
            distribution \in Distributions
                \cup {Some(<<ZeroWeight, [Tiny EXCEPT !.weight = 0]>>),
                      Some(<<FullHD, NoWidth>>),
                      Some(<<[FullHD EXCEPT !.weight = null]>>),
                      Some(<<FullHD, [Tiny EXCEPT !.weight = 0]>>),
                      Some(<<[Tiny EXCEPT !.weight = 0], [FullHD EXCEPT !.weight = 3],
                             Huge>>),
                      Some(<<FullHD, [Tiny EXCEPT !.weight = 0 - 1], Huge>>),
                      Some(<<NoWeight, [Tiny EXCEPT !.weight = 2]>>),
                      Some(<<[FullHD EXCEPT !.weight = 0 - 1], [Tiny EXCEPT !.weight = 0]>>)}}
    \cup {StoredScreen(screen_mode, Some(Tiny), Some(<<Huge>>)) :
            screen_mode \in {"random_session", "fullscreen"}}

\* The backend started on a store with one profile, and a client that
\* launches and stops its browser, one request after the other has finished.
NextScreen ==
    \/ started /\ InFlight = {} /\ launch_profile(0)
    \/ started /\ InFlight = {} /\ stop_profile(0)
    \/ \E task \in InFlight : TaskStep(task)

ScreenSpec ==
    InitText({<<record>> : record \in StoredScreens}, {None}) /\ [][NextScreen]_vars

\* a text made of a scheme prefix, credentials, a host and a port, any of
\* which may be the empty run <<>>
ProxyText(prefix, userinfo, host, port) == prefix \o userinfo \o host \o port

\* the credentials "user:password@" a client writes; the last password
\* holds an "@" itself
Credentials ==
    {<<"user", ":", "pass", "@">>, <<"admin", ":", "secret", "@">>,
     <<"user", ":", "p", "@", "ss", "@">>}

Prefixes == {<<"http", ":", "//">>, <<"socks5", ":", "//">>, <<"//">>, <<>>}

HostTexts == {<<"proxy.example.com">>}

PortTexts == {<<>>, <<":", "8080">>}

\* the strings a client submits as a proxy URL: the empty string, a word
\* that is no URL, and URLs with and without scheme, credentials and port
ProxyTexts ==
    {<<>>, <<"garbage">>}
    \cup {ProxyText(prefix, userinfo, host, port) :
            prefix \in Prefixes, userinfo \in Credentials \cup {<<>>},
            host \in HostTexts, port \in PortTexts}

\* The backend with a client that validates the strings of ProxyTexts and
\* creates profiles with them.
TextSpec ==
    InitText(InitStores, {Some(text) : text \in ProxyTexts}) /\ [][NextProxy]_vars

\* The backend started on a store with two profiles, ids 0 and 1, and
\* clients that launch, stop, navigate and delete them in any interleaving.
PairIds == {0, 1}

NextPair ==
    \/ \E profile_id \in PairIds : started /\ launch_profile(profile_id)
    \/ \E profile_id \in PairIds : started /\ stop_profile(profile_id)
    \/ \E profile_id \in PairIds, raises \in BOOLEAN :
          started /\ navigate_profile(profile_id, raises)
    \/ \E profile_id \in PairIds : started /\ delete_profile_endpoint(profile_id)
    \/ \E task \in InFlight : TaskStep(task)

PairSpec ==
    InitText({<<Stored(0, "inactive"), Stored(1, "inactive")>>}, {None})
    /\ [][NextPair]_vars

(* ------------------------------ properties ----------------------------- *)
\* the status the registry holds for the profile id; "absent" without one
StatusOf(list, id) ==
    LET hits == {i \in 1..Len(list) : list[i].id = id} IN
    IF hits = {} THEN "absent"
    ELSE list[CHOOSE i \in hits : \A j \in hits : i <= j].status

\* the open browsers that launches of id started: those a launch of id in
\* flight holds and the one of the session registered for id
StartedFor(id) ==
    {h \in browsers :
        \/ \E task \in InFlight :
              task.kind = "launch_browser" /\ task.id = id /\ task.handle = h
        \/ id \in DOMAIN active_sessions /\ active_sessions[id].browser = h}

\* the task delete_profile creates to tear the session of id down
Teardown(id) == Task("close_browser_session", id, "queued", NoHandle, None)

\* C1: of the launches of one id that overlap only one starts an engine
\* session: in no state have two browsers been started and left open for the
\* same profile id.
C1_OneSessionStartedPerId ==
    \A id \in ProfileIds : Cardinality(StartedFor(id)) <= 1

\* C2: a launch requested while a session of the id is active is rejected at
\* once (400 "Profile is already active", 404 when the profile is gone): no
\* launch is started, and the session record, the profiles with their status
\* and config, the store and the browsers are as before.
C2_LaunchWhileActiveRejected ==
    [][\A id \in ProfileIds :
          (is_session_active(id) /\ launch_profile(id))
          => /\ last' = IF IsSome(get_profile(id))
                        THEN Http(400, "Profile is already active")
                        ELSE NotFound
             /\ UNCHANGED <<active_sessions, session_configs, profiles, store,
                            browsers, tasks>>]_vars

\* a launch was rejected as a conflict while the session of a profile is active
C2_Witness ==
    /\ last = Http(400, "Profile is already active")
    /\ \E id \in ProfileIds : is_session_active(id) /\ IsSome(get_profile(id))

\* C3: when a launch of id ends in failure, no session record exists for id
\* afterwards and the profile's status is not "active".
C3_FailedLaunchLeavesInactive ==
    [][\A task \in InFlight :
          (/\ task.kind = "launch_browser"
           /\ tasks' = Finish(task)
           /\ last' = Returned("launch_browser", FALSE))
          => /\ task.id \notin DOMAIN active_sessions'
             /\ StatusOf(profiles', task.id) # "active"]_vars

\* C4: when a stop of an active id has finished, whether or not the engine
\* raised during shutdown, no session record exists for id and the profile's
\* status is not "active".
C4_StopEndsInactive ==
    [][\A task \in InFlight :
          (task.kind = "stop_browser" /\ task.pc = "aexit" /\ tasks' = Finish(task))
          => /\ task.id \notin DOMAIN active_sessions'
             /\ StatusOf(profiles', task.id) # "active"]_vars

\* C5: a stop or a navigate on an id without an active session answers with a
\* failure (400 "Profile is not active", 404 without the profile), and the
\* teardown of an id without a session returns False; none of them calls the
\* engine or changes sessions, profiles, store or browsers.
C5_InactiveStopNavigateNoEffect ==
    [][\A id \in ProfileIds :
          ~is_session_active(id)
          => /\ (stop_profile(id) \/ \E raises \in BOOLEAN : navigate_profile(id, raises))
                => /\ last' \in {NotFound, Http(400, "Profile is not active")}
                   /\ UNCHANGED <<active_sessions, session_configs, profiles,
                                  store, browsers, tasks>>
             /\ \A task \in InFlight :
                   (task.id = id /\ close_browser_session_begin(task))
                   => /\ last' = Returned(task.kind, FALSE)
                      /\ tasks' = Finish(task)
                      /\ UNCHANGED <<active_sessions, session_configs, profiles,
                                     store, browsers>>]_vars

\* a stop or a navigate was refused for a profile without a session
C5_Witness ==
    /\ last = Http(400, "Profile is not active")
    /\ \E id \in ProfileIds : IsSome(get_profile(id)) /\ ~is_session_active(id)

\* C6: a navigate on an active id in which the engine raises answers with a
\* failure (500 "Failed to navigate") and leaves the session record, the
\* browser and everything else as they were: the id stays active.
C6_FailedNavigateKeepsSession ==
    [][\A id \in ProfileIds :
          (/\ IsSome(get_profile(id))
           /\ is_session_active(id)
           /\ navigate_profile(id, TRUE))
          => /\ last' = Http(500, "Failed to navigate")
             /\ is_session_active(id)'
             /\ UNCHANGED <<active_sessions, session_configs, profiles, store,
                            browsers, tasks>>]_vars

\* a navigation failed and the session is still registered
C6_Witness ==
    /\ last = Http(500, "Failed to navigate")
    /\ \E id \in ProfileIds : IsSome(get_profile(id)) /\ is_session_active(id)

\* C7: a step that removes from the registry a profile whose session is
\* active has created the task tearing that session down, in the same step
\* that answers with success.
C7_DeleteStartsTeardown ==
    [][\A id \in ProfileIds :
          (/\ StatusOf(profiles, id) # "absent"
           /\ is_session_active(id)
           /\ StatusOf(profiles', id) = "absent")
          => /\ CopiesIn(Teardown(id), tasks') = CopiesIn(Teardown(id), tasks) + 1
             /\ last' = Http(200, "Profile deleted successfully")]_vars

\* the profile is deleted, its session still registered, its teardown queued
C7_Witness ==
    \E id \in ProfileIds :
        /\ IsNone(get_profile(id))
        /\ is_session_active(id)
        /\ BagIn(Teardown(id), tasks)

\* C8: the teardown delete started removes the session record: once the
\* teardown of id has finished and nothing else is in flight for id, no
\* session record for id remains.
C8_TeardownRemovesSession ==
    [][\A task \in InFlight :
          (/\ task.kind = "close_browser_session"
           /\ tasks' = Finish(task)
           /\ \A other \in BagToSet(tasks') : other.id # task.id)
          => task.id \notin DOMAIN active_sessions']_vars

\* C9: a create whose request fails validation is answered with an error,
\* and a create answered with an error (validation or the encryption of the
\* proxy credentials failed) leaves the registry and the store as they were.
C9_FailedCreateChangesNothing ==
    [][\A body \in Bodies :
          create_enhanced_profile_endpoint(body)
          => /\ (\/ ~ProfileCreateRequest(body).ok
                 \/ ~validate_profile_create_request(
                        ProfileCreateRequest(body).request, host_os).valid)
                => last'.status \in {422, 500}
             /\ last'.status # 200
                => /\ last'.status \in {422, 500}
                   /\ UNCHANGED <<profiles, store>>]_vars

\* the encryption of the credentials failed in a create while the registry
\* holds a profile
C9_Witness ==
    /\ last = Http(500, "Failed to securely store proxy credentials")
    /\ Len(profiles) > 0

\* C10: a create answered with success appends exactly one profile after the
\* existing ones, which are unchanged; its id is new, its status "inactive",
\* its effective OS and warnings those the validation of a request gives;
\* and the store holds the new list.
C10_CreateAppendsAndPersists ==
    [][last' = Http(200, "created")
       => /\ Len(profiles') = Len(profiles) + 1
          /\ SubSeq(profiles', 1, Len(profiles)) = profiles
          /\ LET p == profiles'[Len(profiles')] IN
               /\ p.status = "inactive"
               /\ \A i \in 1..Len(profiles) : profiles[i].id # p.id
               /\ \E body \in Bodies :
                    /\ ProfileCreateRequest(body).ok
                    /\ LET request == ProfileCreateRequest(body).request
                           validation == validate_profile_create_request(request, host_os)
                       IN /\ p.name = request.name
                          /\ p.effective_os = validation.effective_os
                          /\ p.warnings = validation.warnings
          /\ store' = [readable |-> TRUE, data |-> profiles']]_vars

\* whether the record p of the registry or of the store is free of the
\* plaintext the client supplied: no key for it, what it holds as ciphertext
\* is not the URL, and its config bundle has no key for it either
NoPlaintext(p) ==
    /\ DOMAIN p \cap {"proxy", "proxy_url"} = {}
    /\ IsSome(proxy_data) => p.proxy_encrypted # proxy_data
    /\ "os" \notin DOMAIN p
       => /\ IsSome(p.config)
             => DOMAIN Get(p.config) \cap {"proxy", "proxy_url", "proxy_encrypted"} = {}
          /\ IsSome(p.proxy_encrypted)
             => DOMAIN Get(p.proxy_encrypted) = {"key", "plaintext", "intact"}
          /\ p.id >= 1 => (p.has_proxy <=> IsSome(p.proxy_encrypted))

\* C11: no profile of the registry and no record of the store holds the
\* plaintext proxy URL given at creation, in a field of its own or in the
\* config bundle: the record holds a ciphertext token and the has_proxy flag,
\* and a created profile has has_proxy exactly when it holds a ciphertext.
C11_NoPlaintextStored ==
    /\ \A i \in 1..Len(profiles) : NoPlaintext(profiles[i])
    /\ \A i \in 1..Len(store.data) : NoPlaintext(store.data[i])

\* a profile created with a proxy is in the registry and in the store
C11_Witness ==
    /\ IsSome(proxy_data)
    /\ \E i \in 1..Len(profiles) : profiles[i].id >= 1 /\ profiles[i].has_proxy
    /\ \E i \in 1..Len(store.data) :
          "os" \notin DOMAIN store.data[i] /\ store.data[i].has_proxy

\* C12: when the vault failed to initialize the registry did not start:
\* nothing was loaded from the store, and no request was served and no task
\* was started in any state that follows.
C12_NoVaultNoRegistry ==
    ~is_encryption_available
    => /\ ~started
       /\ Len(profiles) = 0
       /\ uuid_count = 0
       /\ DOMAIN active_sessions = {}
       /\ tasks = EmptyBag
       /\ last = Suspended

\* the vault failed while the store holds a profile
C12_Witness ==
    ~is_encryption_available /\ ~started /\ Len(store.data) > 0

C14_DecryptFailureMeansNoProxy ==
    [][\A task \in InFlight :
          (/\ task.kind = "launch_browser" /\ task.pc = "queued"
           /\ IsSome(get_profile(task.id))
           /\ Get(get_profile(task.id)).has_proxy
           /\ IsSome(Get(get_profile(task.id)).proxy_encrypted)
           /\ ~decrypt(Get(Get(get_profile(task.id)).proxy_encrypted)).ok)
          => /\ IsNone(get_profile_proxy(Get(get_profile(task.id))))
             /\ launch_browser_begin(task, FALSE)
                => /\ last' = Suspended
                   /\ \E next \in BagToSet(tasks') :
                         /\ next.kind = "launch_browser" /\ next.id = task.id
                         /\ next.pc = "aenter"
                         /\ ~Get(next.session_config).has_proxy]_vars

\* a session runs without a proxy for a profile that has one stored
C14_Witness ==
    \E id \in DOMAIN active_sessions :
        /\ IsSome(get_profile(id))
        /\ Get(get_profile(id)).has_proxy
        /\ ~active_sessions[id].config.has_proxy

\* C15: status(id) of an existing profile answers "inactive" when the id has
\* no session and "active" with the session metadata when it has one, never
\* an error.
C15_StatusReportsState ==
    [][\A id \in ProfileIds :
          (IsSome(get_profile(id)) /\ get_profile_status(id))
          => last' = Http(200, IF is_session_active(id) THEN "active"
                               ELSE "inactive")]_vars

\* C16: whenever no launch and no stop is in flight for a profile, its status
\* is "active" exactly when active_sessions holds a session for its id.
C16_StatusMirrorsSession ==
    \A i \in 1..Len(profiles) :
        (\A task \in InFlight :
            task.id = profiles[i].id
            => task.kind \notin {"launch_browser", "stop_browser"})
        => (profiles[i].status = "active" <=> is_session_active(profiles[i].id))

\* C17: a create, delete, launch or stop that reports success has written the
\* store: the file is readable and holds the list the registry holds.
C17_SuccessMeansStored ==
    [][last' \in {Http(200, "created"), Http(200, "Profile deleted successfully"),
                  Returned("launch_browser", TRUE), Returned("stop_browser", TRUE)}
       => store' = [readable |-> TRUE, data |-> profiles']]_vars

\* whether the item of the store can be migrated and parsed by itself
Loadable(profile_data) ==
    /\ IsDict(profile_data)
    /\ \A now \in Times :
          Profile(_migrate_legacy_profile(profile_data, host_os, NoId, now)).ok

\* how many of the first i items of the store can be loaded
Pos(data, i) == Cardinality({j \in 1..i : Loadable(data[j])})

\* the registry is as construction left it
JustStarted == started /\ last = Suspended

\* C18: after the load every item of the store that can be migrated and
\* parsed is in the registry, in the order of the store, and only the items
\* that cannot are left out.
C18_BadRecordsSkipped ==
    JustStarted
    => /\ Len(profiles) = Pos(store.data, Len(store.data))
       /\ \A i \in 1..Len(store.data) :
             Loadable(store.data[i])
             => \E now \in Times :
                   profiles[Pos(store.data, i)]
                   = Profile(_migrate_legacy_profile(store.data[i], host_os,
                                                     NoId, now)).profile

WellFormedProxy(url) ==
    /\ url.scheme \in {"http", "https"}
    /\ Truthy(url.hostname)
    /\ IsSome(url.port)
    /\ 1 <= Get(url.port) /\ Get(url.port) <= MaxPort

\* C20: parse_proxy_url gives an endpoint only for a URL with scheme http or
\* https, a host and a port of 1..65535, and the endpoint has that scheme,
\* host and port; for any other URL it raises ValueError, so the validation
\* endpoint answers "valid" and a profile is created with the URL only if
\* the URL is of that form.
C20_ParseAcceptsOnlyWellFormed ==
    IsSome(proxy_data)
    => LET url == Get(proxy_data)
           parsed == parse_proxy_url(url)
       IN /\ ~WellFormedProxy(url) => ~parsed.ok
          /\ parsed.ok
             => /\ WellFormedProxy(url)
                /\ parsed.config.protocol = url.scheme
                /\ parsed.config.host = Get(url.hostname)
                /\ parsed.config.port = Get(url.port)
          /\ last = Http(200, "valid") => WellFormedProxy(url)
          /\ \A i \in 1..Len(profiles) :
                (profiles[i].id >= 1 /\ profiles[i].has_proxy)
                => WellFormedProxy(url)

\* a URL with the highest port was validated and accepted
C20_Witness ==
    /\ last = Http(200, "valid")
    /\ IsSome(proxy_data)
    /\ Get(proxy_data).port = Some(MaxPort)

\* C21: every endpoint parse_proxy_url returns has a username and a password
\* or neither, and a URL that carries only one of the two (a username
\* without a password, or a password without a username) is rejected with
\* ValueError: the validation endpoint never answers "valid" for it.
C21_CredentialsTogether ==
    IsSome(proxy_data)
    => LET url == Get(proxy_data)
           parsed == parse_proxy_url(url)
       IN /\ parsed.ok
             => (Truthy(parsed.config.username) <=> Truthy(parsed.config.password))
          /\ (Truthy(url.username) # Truthy(url.password)) => ~parsed.ok
          /\ last = Http(200, "valid")
             => (Truthy(url.username) <=> Truthy(url.password))

\* the lexemes of the texts the model draws and writes
Lexemes ==
    UNION {Range(text) : text \in ProxyTexts}
    \cup {"***", "pass", "p@ss", "https", "localhost", "0", "1", "65535", "65536", ""}

\* C22: for every input string, the empty string and text that is no URL
\* included, validate_proxy_url and sanitize_proxy_for_logging do not raise:
\* validate returns valid, errors and warnings with valid true exactly when
\* errors is empty, sanitize returns a string, and the validation endpoint
\* answers "valid" or "invalid" accordingly.
C22_ValidateSanitizeNeverRaise ==
    IsSome(proxy_text)
    => LET text == Get(proxy_text)
           validation == validate_proxy_url(urlparse(text))
           sanitized == sanitize_proxy_for_logging(text)
       IN /\ validation.valid \in BOOLEAN
          /\ validation.valid <=> (validation.errors = <<>>)
          /\ ~sanitized.raised
          /\ sanitized.value \in Seq(Lexemes)
          /\ last = Http(200, "valid") => validation.errors = <<>>
          /\ last = Http(200, "invalid") => validation.errors # <<>>

\* text that is no URL was validated and reported invalid
C22_Witness ==
    /\ proxy_text = Some(<<"garbage">>)
    /\ last = Http(200, "invalid")
    /\ validate_proxy_url(urlparse(<<"garbage">>)).errors # <<>>
    /\ sanitize_proxy_for_logging(<<"garbage">>).value = <<"garbage">>

\* the words of a client's credentials: all of userinfo but ":" and "@"
Secrets(userinfo) == Range(userinfo) \ Separators

\* C23: for every input string that carries credentials (user:password
\* before an "@"), whether it parses as a proxy URL or not, the output of
\* sanitize_proxy_for_logging holds no part of the password, and is the
\* same for any other credentials in the same URL.
C23_SanitizeHidesPassword ==
    \A prefix \in Prefixes, host \in HostTexts, port \in PortTexts :
      \A userinfo \in Credentials :
        proxy_text = Some(ProxyText(prefix, userinfo, host, port))
        => LET sanitized == sanitize_proxy_for_logging(Get(proxy_text)).value
           IN /\ Range(sanitized) \cap Secrets(userinfo) = {}
              /\ \A other \in Credentials :
                   sanitize_proxy_for_logging(
                       ProxyText(prefix, other, host, port)).value = sanitized

\* the fields of the ProfileResponse model
ResponseFields ==
    {"id", "name", "screen_mode", "fixed_screen", "distribution", "has_proxy",
     "proxy_host", "use_host_os", "os_override", "effective_os", "timezone",
     "status", "created_at", "warnings"}

\* the keys of a session's config and of its summary
SessionFields ==
    {"timezone", "locale_language", "locale_region", "showcursor",
     "effective_os", "screen_mode", "selected_screen", "humanize", "headless",
     "has_proxy", "proxy_host"}

SummaryFields ==
    {"timezone", "effective_os", "screen_mode", "humanize", "has_proxy",
     "addons_count", "fonts_count", "screen_resolution", "window_size",
     "proxy_host"}

\* the username and password of a proxy URL
CredentialsOf(proxy_url) ==
    IF IsNone(proxy_url) THEN {}
    ELSE {Get(o) : o \in {c \in {Get(proxy_url).username, Get(proxy_url).password} :
                            IsSome(c)}}

\* C24: the session metadata kept for status(id) and the ProfileResponse of
\* list, get and create hold no proxy username, password or ciphertext: of
\* the proxy they show has_proxy and a proxy host, "host:port" of the
\* profile's URL or the word "configured", and nothing else.
C24_ResponsesHideCredentials ==
    /\ \A i \in 1..Len(profiles) :
         LET url == get_profile_proxy(profiles[i])
             response == get_profile_response(profiles[i])
         IN /\ DOMAIN response = ResponseFields
            /\ DOMAIN get_profiles[i] = ResponseFields
            /\ get_profiles[i].proxy_host = None
            /\ response.has_proxy \in BOOLEAN
            /\ IsSome(response.proxy_host)
               => \/ Get(response.proxy_host) = <<"configured">>
                  \/ /\ IsSome(url)
                     /\ Get(response.proxy_host)
                          = <<Get(Get(url).hostname), ":", str(Get(Get(url).port))>>
            /\ \A w \in Range(response.warnings) :
                 Range(w) \cap CredentialsOf(url) = {}
    /\ \A id \in DOMAIN session_configs :
         LET config == session_configs[id]
             summary == _get_config_summary(config)
         IN /\ DOMAIN config = SessionFields
            /\ DOMAIN summary = SummaryFields
            /\ config.has_proxy \in BOOLEAN /\ summary.has_proxy = config.has_proxy
            /\ summary.proxy_host = config.proxy_host
            /\ IsSome(config.proxy_host)
               => /\ Len(Get(config.proxy_host)) = 2
                  /\ Get(config.proxy_host)[1] = ProxyWithAuth.hostname[1]
                  /\ Get(config.proxy_host)[2] = ProxyWithAuth.port[1]
    /\ \A id \in DOMAIN active_sessions :
         /\ id \in DOMAIN session_configs
         /\ active_sessions[id].config = session_configs[id]
         /\ DOMAIN active_sessions[id] = {"browser", "config", "created_at", "screen_config"}

\* a profile created with a proxy that has credentials is running: its
\* response and its session show the proxy host
C24_Witness ==
    \E i \in 1..Len(profiles) :
      /\ CredentialsOf(get_profile_proxy(profiles[i])) = {"user", "pass"}
      /\ get_profile_response(profiles[i]).proxy_host
           = Some(<<"proxy.example.com", ":", "8080">>)
      /\ profiles[i].id \in DOMAIN session_configs
      /\ session_configs[profiles[i].id].has_proxy
      /\ session_configs[profiles[i].id].proxy_host = Some(<<"proxy.example.com", 8080>>)

\* the profiles created in this run (their ids are drawn by uuid4)
Created == {i \in 1..Len(profiles) : profiles[i].id >= 1}

\* the screen configuration validate_profile_create_request passes on
ScreenConfigOf(request) ==
    [fixed_screen |-> request.fixed_screen,
     distribution |-> IF IsSome(request.distribution)
                         /\ Len(Get(request.distribution)) > 0
                      THEN request.distribution ELSE None]

\* C25: validate_profile_create_request returns valid = true if and only if
\* its error list, the errors of the screen validation followed by those of
\* the proxy validation (the OS checks add none), is empty; warnings, those
\* of an OS override that differs from the host included, never make a
\* request invalid, and a profile is created only from a valid request.
C25_ValidIffNoErrors ==
    IsSome(request_body)
    => LET request == Get(request_body)
           result == validate_profile_create_request(request, host_os)
           screen == validate_screen_mode_config(request.screen_mode,
                                                 ScreenConfigOf(request))
           proxy_errors == IF IsSome(request.proxy)
                           THEN validate_proxy_url(Get(request.proxy)).errors
                           ELSE <<>>
           parsed == ProfileCreateRequest(request)
       IN /\ result.valid <=> (result.errors = <<>>)
          /\ result.errors = screen.errors \o proxy_errors
          /\ (screen.errors = <<>> /\ proxy_errors = <<>>) => result.valid
          /\ last = Http(200, "created")
             => /\ parsed.ok
                /\ validate_profile_create_request(parsed.request, host_os).valid
          /\ last = Http(500, "Profile validation failed")
             => /\ parsed.ok
                /\ validate_profile_create_request(parsed.request, host_os).errors # <<>>

\* a request whose override differs from the host was validated with
\* warnings and the profile created
C25_Witness ==
    /\ IsSome(request_body)
    /\ ~Get(request_body).use_host_os
    /\ Get(request_body).os_override = Some("Windows")
    /\ host_os = "linux"
    /\ ProfileCreateRequest(Get(request_body)).ok
    /\ Len(validate_profile_create_request(
               ProfileCreateRequest(Get(request_body)).request, host_os).warnings) >= 4
    /\ last = Http(200, "created")
    /\ Created # {}

\* C26: the effective_os computed for a request is the detected host OS when
\* use_host_os is true (an override sent along is ignored and gives no
\* mismatch warning) and the override when use_host_os is false; it is one
\* of windows, macos, linux, and so is the effective_os of every profile
\* created.
C26_EffectiveOs ==
    (IsSome(request_body) /\ ProfileCreateRequest(Get(request_body)).ok)
    => LET body == Get(request_body)
           request == ProfileCreateRequest(body).request
           result == validate_profile_create_request(request, host_os)
           expected == IF request.use_host_os THEN host_os
                       ELSE lower(Get(body.os_override))
       IN /\ result.effective_os = expected
          /\ result.effective_os \in valid_os_values
          /\ request.use_host_os
             => result.warnings
                  = validate_screen_mode_config(request.screen_mode,
                                                ScreenConfigOf(request)).warnings
                    \o (IF IsSome(request.proxy)
                        THEN validate_proxy_url(Get(request.proxy)).warnings
                        ELSE <<>>)
          /\ \A i \in Created : profiles[i].effective_os = expected

\* a profile was created on a macOS host from a request that uses the host
\* OS and sends an override along
C26_Witness ==
    /\ IsSome(request_body)
    /\ Get(request_body).use_host_os
    /\ Get(request_body).os_override = Some("Windows")
    /\ host_os = "macos"
    /\ last = Http(200, "created")
    /\ \E i \in Created : profiles[i].effective_os = "macos"

\* C27: a creation request with use_host_os = false and no os_override is
\* rejected with an error, no profile is created from it, and it is never
\* resolved to the host OS.
C27_OverrideRequired ==
    (/\ IsSome(request_body)
     /\ ~Get(request_body).use_host_os
     /\ ~Truthy(Get(request_body).os_override))
    => /\ ~ProfileCreateRequest(Get(request_body)).ok
       /\ Created = {}
       /\ uuid_count = 0
       /\ last \in {Suspended, Http(422, "validation error"), NotFound,
                    Http(200, "Profile deleted successfully")}

\* a request with use_host_os = false and no override was answered 422
C27_Witness ==
    /\ IsSome(request_body)
    /\ ~Get(request_body).use_host_os
    /\ Get(request_body).os_override = None
    /\ last = Http(422, "validation error")
    /\ Created = {}

\* C28: validate_screen_mode_config reports an error (valid = false) for
\* fixed_profile without a fixed size, and for custom_distribution whose
\* list is missing, empty or of a total weight that is not strictly
\* positive; random_session is valid without payload. No profile is created
\* from a request of the first two kinds.
C28_ScreenModeErrors ==
    IsSome(request_body)
    => LET body == Get(request_body)
           config == [fixed_screen |-> body.fixed_screen,
                      distribution |-> body.distribution]
           result == validate_screen_mode_config(body.screen_mode, config)
           no_payload ==
               \/ body.screen_mode = "fixed_profile" /\ IsNone(body.fixed_screen)
               \/ /\ body.screen_mode = "custom_distribution"
                  /\ \/ IsNone(body.distribution)
                     \/ Len(Get(body.distribution)) = 0
                     \/ SumWeights(Get(body.distribution)) <= 0
       IN /\ no_payload => (~result.valid /\ result.errors # <<>>)
          /\ no_payload => (~ProfileCreateRequest(body).ok /\ Created = {})
          /\ body.screen_mode = "random_session"
             => /\ result.valid /\ result.errors = <<>>
                /\ validate_screen_mode_config("random_session",
                       [fixed_screen |-> None, distribution |-> None]).valid

\* a custom_distribution request whose weights add up to zero was answered
\* 422
C28_Witness ==
    /\ IsSome(request_body)
    /\ Get(request_body).screen_mode = "custom_distribution"
    /\ IsSome(Get(request_body).distribution)
    /\ Len(Get(Get(request_body).distribution)) = 2
    /\ SumWeights(Get(Get(request_body).distribution)) = 0
    /\ last = Http(422, "validation error")

\* the sizes a request carries
SizesOf(body) ==
    (IF IsSome(body.fixed_screen) THEN {Get(body.fixed_screen)} ELSE {})
    \cup (IF IsSome(body.distribution) THEN Range(Get(body.distribution)) ELSE {})

\* C29: ScreenSize.validate is invalid exactly when a screen or window
\* dimension or the weight is not positive; a window larger than the
\* screen, a screen below 800x600 or above 7680x4320 and a window below
\* 400x300 add a warning and leave the size valid. A fixed_profile request
\* with screen_width = 0 is rejected with an error and creates no profile.
C29_ScreenSizeValidation ==
    IsSome(request_body)
    => LET body == Get(request_body) IN
       /\ \A s \in SizesOf(body) :
            LET result == ScreenSize_validate(s)
                positive == /\ s.screen_width > 0 /\ s.screen_height > 0
                            /\ s.window_width > 0 /\ s.window_height > 0
                            /\ s.weight > 0
                odd == \/ s.window_width > s.screen_width
                       \/ s.window_height > s.screen_height
                       \/ s.screen_width < 800 \/ s.screen_height < 600
                       \/ s.screen_width > 7680 \/ s.screen_height > 4320
                       \/ s.window_width < 400 \/ s.window_height < 300
            IN /\ result.valid <=> positive
               /\ result.valid <=> (result.errors = <<>>)
               /\ odd <=> (result.warnings # <<>>)
       /\ (/\ body.screen_mode = "fixed_profile"
           /\ IsSome(body.fixed_screen)
           /\ Get(body.fixed_screen).screen_width = 0)
          => /\ ~validate_screen_mode_config("fixed_profile",
                    [fixed_screen |-> body.fixed_screen,
                     distribution |-> body.distribution]).valid
             /\ ~ProfileCreateRequest(body).ok
             /\ Created = {}
             /\ last # Http(200, "created")
       /\ last = Http(200, "created")
          => \A s \in SizesOf(body) : ScreenSize_validate(s).valid

\* a fixed_profile request with screen_width = 0 was answered 422
C29_Witness ==
    /\ IsSome(request_body)
    /\ Get(request_body).screen_mode = "fixed_profile"
    /\ Get(request_body).fixed_screen = Some(ZeroWidth)
    /\ ~ScreenSize_validate(ZeroWidth).valid
    /\ last = Http(422, "validation error")

\* the screen sizes selected for the sessions that are open or being opened
Selected ==
    {session_configs[id].selected_screen : id \in DOMAIN session_configs}
    \cup {Get(task.session_config).selected_screen :
            task \in {t \in InFlight : IsSome(t.session_config)}}

\* whether a fixed_screen payload is a dict with a number for each of the
\* four dimensions
WellFormed(fixed_screen) ==
    /\ IsSome(fixed_screen)
    /\ Dimensions \subseteq DOMAIN Get(fixed_screen)
    /\ \A key \in Dimensions : Get(fixed_screen)[key] # null

\* C30: select_screen_for_profile returns a ScreenSize for every mode and
\* payload; in fixed_profile mode it returns the configured size, with the
\* same four dimensions, when the payload is well-formed, and a member of
\* COMMON_RESOLUTIONS when the payload is absent or malformed.
C30_SelectNeverFails ==
    \A i \in 1..Len(profiles) :
      LET profile == profiles[i]
          returned == select_screen_for_profile(
                          [screen_mode |-> profile.screen_mode,
                           fixed_screen |-> profile.fixed_screen,
                           distribution |-> profile.distribution])
      IN /\ returned # {}
         /\ \A size \in returned : DOMAIN size = DOMAIN FullHD
         /\ Selected \subseteq returned
         /\ (profile.screen_mode = "fixed_profile" /\ WellFormed(profile.fixed_screen))
            => \A size \in returned :
                 \A key \in Dimensions : size[key] = Get(profile.fixed_screen)[key]
         /\ (profile.screen_mode = "fixed_profile" /\ ~WellFormed(profile.fixed_screen))
            => returned \subseteq Range(COMMON_RESOLUTIONS)

\* the items of a stored distribution as sample_from_distribution reads
\* them, when each is a dict with the four dimensions and a number for its
\* weight; <<>> otherwise
Supplied(distribution) ==
    IF IsSome(distribution)
       /\ \A i \in 1..Len(Get(distribution)) :
             /\ from_dict(Get(distribution)[i]).ok
             /\ from_dict(Get(distribution)[i]).size.weight # null
    THEN [i \in 1..Len(Get(distribution)) |-> from_dict(Get(distribution)[i]).size]
    ELSE <<>>

\* C31: sampling a non-empty custom_distribution in which at least one
\* weight is positive returns one of the supplied items, and an item can be
\* returned exactly when its weight is positive.
C31_PositiveWeightsSelectable ==
    \A i \in 1..Len(profiles) :
      LET profile == profiles[i]
          items == Supplied(profile.distribution)
          returned == sample_from_distribution(profile.distribution)
      IN (/\ profile.screen_mode = "custom_distribution"
          /\ Len(items) > 0
          /\ \E k \in 1..Len(items) : items[k].weight > 0)
         => /\ returned \subseteq Range(items)
            /\ Selected \subseteq returned
            /\ \A k \in 1..Len(items) : items[k] \in returned <=> items[k].weight > 0

\* C32: sampling a non-empty custom_distribution whose weights are all <= 0
\* does not fail and does not fall back to the catalog: it returns one of the
\* supplied items, and every supplied item is a possible result.
C32_UniformSubstitution ==
    \A i \in 1..Len(profiles) :
      LET profile == profiles[i]
          items == Supplied(profile.distribution)
          returned == sample_from_distribution(profile.distribution)
      IN (/\ profile.screen_mode = "custom_distribution"
          /\ Len(items) > 0
          /\ \A k \in 1..Len(items) : items[k].weight <= 0)
         => /\ returned = Range(items)
            /\ Selected \subseteq returned

\* a session was opened with the second item of a distribution of weights
\* -1 and 0
C32_Witness ==
    /\ Len(profiles) = 1
    /\ profiles[1].screen_mode = "custom_distribution"
    /\ Supplied(profiles[1].distribution)
         = <<[FullHD EXCEPT !.weight = 0 - 1], [Tiny EXCEPT !.weight = 0]>>
    /\ 0 \in DOMAIN session_configs
    /\ session_configs[0].selected_screen = [Tiny EXCEPT !.weight = 0]

\* C33: for random_session mode, for any unrecognized mode, and for
\* custom_distribution mode with an empty or missing list, the selected
\* ScreenSize is a member of COMMON_RESOLUTIONS, and every entry of
\* COMMON_RESOLUTIONS is a possible result.
C33_CatalogSelection ==
    \A i \in 1..Len(profiles) :
      LET profile == profiles[i]
          returned == select_screen_for_profile(
                          [screen_mode |-> profile.screen_mode,
                           fixed_screen |-> profile.fixed_screen,
                           distribution |-> profile.distribution])
      IN (\/ profile.screen_mode \notin {"fixed_profile", "custom_distribution"}
          \/ /\ profile.screen_mode = "custom_distribution"
             /\ (IsNone(profile.distribution) \/ Get(profile.distribution) = <<>>))
         => /\ returned = Range(COMMON_RESOLUTIONS)
            /\ Selected \subseteq returned

\* a session of a profile of an unrecognized mode was opened with the
\* rarest resolution of the catalog, though the profile holds other sizes
C33_Witness ==
    /\ Len(profiles) = 1
    /\ profiles[1].screen_mode = "fullscreen"
    /\ profiles[1].fixed_screen = Some(Tiny)
    /\ 0 \in DOMAIN session_configs
    /\ session_configs[0].selected_screen = COMMON_RESOLUTIONS[9]

\* the fields of a Profile that launch and stop are not to touch
Frame(profile) == [field \in DOMAIN profile \ {"status", "config"} |-> profile[field]]

\* C34: a step of launch_browser or stop_browser changes no field of a
\* Profile other than status and config, changes config only when the
\* profile had none, and the step in which a launch fails changes nothing
\* of any Profile.
C34_LaunchStopFrame ==
    [][\A task \in InFlight :
          (task.kind \in {"launch_browser", "stop_browser"} /\ TaskStep(task))
          => /\ Len(profiles') = Len(profiles)
             /\ \A i \in 1..Len(profiles) :
                   /\ Frame(profiles'[i]) = Frame(profiles[i])
                   /\ profiles'[i].config # profiles[i].config
                      => IsNone(profiles[i].config) /\ profiles[i].id = task.id
                   /\ profiles'[i].status # profiles[i].status
                      => profiles[i].id = task.id
             /\ last' = Returned("launch_browser", FALSE) => profiles' = profiles]_vars

\* a step of an operation on the profile id: a request to one of its
\* session endpoints or to delete, or a step of one of its tasks
OperationOn(id) ==
    \/ launch_profile(id)
    \/ stop_profile(id)
    \/ \E raises \in BOOLEAN : navigate_profile(id, raises)
    \/ delete_profile_endpoint(id)
    \/ \E task \in InFlight : task.id = id /\ TaskStep(task)

\* the id of a record of profiles.json: of a record an earlier run left
\* every key is Optional (its status is None or Some of a word), a record
\* save_profiles wrote holds the fields of the Profile themselves
IdOf(record) ==
    IF Len(record.status) <= 1 THEN OrElse(record.id, NoId) ELSE record.id

\* whether profiles.json holds a record of the id
Persisted(file, id) ==
    file.readable /\ \E i \in 1..Len(file.data) : IdOf(file.data[i]) = id

\* C35: a step of a launch, stop, navigate or delete on id A, in any
\* interleaving with operations on another id B, changes neither B's session
\* record, nor B's profile, nor whether B is in the registry and in the
\* persisted store.
C35_IdsIndependent ==
    [][\A A \in PairIds, B \in PairIds :
          (A # B /\ OperationOn(A))
          => /\ is_session_active(B)' = is_session_active(B)
             /\ is_session_active(B)
                => /\ active_sessions'[B] = active_sessions[B]
                   /\ session_configs'[B] = session_configs[B]
             /\ get_profile(B)' = get_profile(B)
             /\ Persisted(store', B) = Persisted(store, B)]_vars

\* C36: no engine browser is leaked: every browser that has been started
\* and not closed is held by a launch or a teardown still in flight or is
\* the handle of the session registered for exactly one profile id, also
\* after a launch that fails part-way and after overlapping launches.
C36_NoBrowserLeaked ==
    \A h \in browsers :
        \/ \E task \in InFlight : task.handle = h
        \/ Cardinality({id \in DOMAIN active_sessions :
                           active_sessions[id].browser = h}) = 1

\* C37: once no operation and no background task is in flight, every
\* session record of active_sessions belongs to a profile that is still in
\* the registry, also after a delete that interleaved with a launch in
\* flight or whose teardown failed.
C37_SessionsHaveProfiles ==
    InFlight = {}
    => \A id \in DOMAIN active_sessions : IsSome(get_profile(id))

\* the teardowns of id that have called `browser_manager.__aexit__` and
\* await its return
Closing(id) ==
    LET awaiting == {task \in InFlight : task.pc = "aexit" /\ task.id = id}
    IN BagCardinality([task \in awaiting |-> CopiesIn(task, tasks)])

\* C38: the engine's teardown is invoked at most once per session: of the
\* teardown requests for one active id that overlap (stop with stop, stop
\* with the teardown delete started) only one calls __aexit__ of the
\* session's browser manager.
C38_OneTeardownPerSession ==
    \A id \in ProfileIds : Closing(id) <= 1

\* C39: every active session of a profile with has_proxy = true was launched
\* with a proxy: in no state does active_sessions hold a session whose config
\* says has_proxy = false for a profile that says has_proxy = true.
C39_ProxySessionsUseProxy ==
    \A id \in DOMAIN active_sessions :
        (IsSome(get_profile(id)) /\ Get(get_profile(id)).has_proxy)
        => /\ active_sessions[id].config.has_proxy
           /\ session_configs[id].has_proxy
====
